---- MODULE Spec2Model ----
(***************************************************************************)
(* Vote record consolidation of the Torrance vote viewer.                  *)
(*                                                                         *)
(* The state is the consolidated store file                                *)
(* data/torrance_votes_smart_consolidated.json, which every script loads,  *)
(* changes and writes back in one run.  A JSON object is a TLA+ record     *)
(* whose fields may be missing: d.get(k, x) is Get(d, k, x), d[k] = x is   *)
(* Put(d, k, x) and "k in d" is k \in DOMAIN d.  A field holding JSON null *)
(* is modelled as a missing field: every reader of such a field in the     *)
(* code goes through .get() or a truth test.                               *)
(*                                                                         *)
(* A text (agenda item) is a sequence of chunks, each chunk a run of       *)
(* characters without the whitespace that separates chunks; lower-casing,  *)
(* prefix and suffix stripping and phrase replacement act on chunks.       *)
(***************************************************************************)
EXTENDS Integers, Sequences, FiniteSets, TLC

VARIABLES
    store,      \* the content of the consolidated store file
    new_data,   \* the content of the input file of the last import
    lastOp,     \* the script that ran last
    removed,    \* the ids the last deduplication printed as removed
    page,       \* the player page the last run was served, as its elements
    self_stats, \* self.stats and the validation log of the last import run
    candidates, \* the votable_vote_candidates file the last extraction read
    config,     \* the ImportConfig of the last import run
    io,         \* the requests, sleeps and file writes of the last import run,
                \* in the order they happened
    backups,    \* the backup files data/backup_<timestamp>.json, oldest first
    runs        \* the number of script runs so far

vars ==
    <<store, new_data, lastOp, removed, page, self_stats, candidates, config, io,
      backups, runs>>

(***************************************************************************)
(* Bounds of the model.                                                    *)
(***************************************************************************)
MaxVotes == 3
MaxRuns == 3

(***************************************************************************)
(* Python dict and list helpers.                                           *)
(***************************************************************************)
Get(d, k, x) == IF k \in DOMAIN d THEN d[k] ELSE x

Put(d, k, x) == (k :> x) @@ d

Has(d, k) == k \in DOMAIN d

EmptyDict == <<>>

Range(s) == {s[i] : i \in DOMAIN s}

RECURSIVE SumOver(_, _)
SumOver(f, S) ==
    IF S = {} THEN 0
    ELSE LET x == CHOOSE y \in S : TRUE IN f[x] + SumOver(f, S \ {x})


Min(S) == CHOOSE x \in S : \A y \in S : x <= y

(***************************************************************************)
(* Text: str.lower() and the substring test "p in s", chunk by chunk.      *)
(***************************************************************************)
LowerChunk(c) ==
    CASE c = "Item 5:" -> "item 5:"
      [] c = "No. 5" -> "no. 5"
      [] c = "Consent" -> "consent"
      [] c = "Calendar" -> "calendar"
      [] c = "Public" -> "public"
      [] c = "Hearing" -> "hearing"
      [] c = "Adjournment" -> "adjournment"
      [] c = "Motion" -> "motion"
      [] c = "Passes" -> "passes"
      [] c = "Fails" -> "fails"
      [] c = "Tie" -> "tie"
      [] c = "Councilmember" -> "councilmember"
      [] c = "5_Consent" -> "5_consent"
      [] c = "Resolution" -> "resolution"
      [] c = "Ordinance" -> "ordinance"
      [] c = "Budget" -> "budget"
      [] c = "Works" -> "works"
      [] c = "Lewis" -> "lewis"
      [] c = "Council" -> "council"
      [] c = "Meeting" -> "meeting"
      [] c = "Meet..." -> "meet..."
      [] OTHER -> c

Lower(text) == [i \in DOMAIN text |-> LowerChunk(text[i])]

\* the lower-case chunks that contain the pattern as a substring
ChunksWith(p) ==
    CASE p = "pass" -> {"passes"}
      [] p = "fail" -> {"fails"}
      [] p = "tie" -> {"tie"}
      [] p = "adjournment" -> {"adjournment"}
      [] p = "consent" -> {"consent", "5_consent"}
      [] p = "resolution" -> {"resolution"}
      [] p = "ordinance" -> {"ordinance"}
      [] p = "hearing" -> {"hearing"}
      [] p = "lewis" -> {"lewis"}
      [] p = "mattucci" -> {"mattucci"}
      [] p = "..." -> {"Meet...", "meet..."}
      [] p = "for presentation" -> {"(for presentation)"}
      [] p = "announcement" -> {"council committee meetings and announcements"}
      [] p = "council committee meetings" ->
             {"council committee meetings",
              "council committee meetings and announcements"}
      [] p = "committee meetings and announcements" ->
             {"council committee meetings and announcements"}
      [] OTHER -> {}

Contains(text, p) == \E i \in DOMAIN text : text[i] \in ChunksWith(p)

\* "p in s" for a phrase of several chunks: the chunks of p in a row in s
IsInfix(p, text) ==
    \E k \in 0..(Len(text) - Len(p)) :
        \A i \in DOMAIN p : text[k + i] = p[i]

(***************************************************************************)
(* comprehensive_deduplication.normalize_agenda_item                       *)
(***************************************************************************)
ItemPrefixes == {"item 5:"}

NoPrefixes == {"no. 5"}

StripPrefix(text, P) ==
    IF Len(text) > 0 /\ text[1] \in P THEN Tail(text) ELSE text

StripSuffix(text, S) ==
    IF Len(text) > 0 /\ text[Len(text)] \in S
    THEN SubSeq(text, 1, Len(text) - 1) ELSE text

ReplaceChunk(text, from, to) ==
    [i \in DOMAIN text |-> IF text[i] = from THEN to ELSE text[i]]

normalize_agenda_item(agenda_item) ==
    IF agenda_item = <<>> THEN <<>>
    ELSE LET n0 == Lower(agenda_item)
             n1 == StripPrefix(n0, ItemPrefixes)
             n2 == StripPrefix(n1, NoPrefixes)
             n3 == StripSuffix(n2, {"(for adoption only)"})
             n4 == StripSuffix(n3, {"(for presentation)"})
             n5 == StripSuffix(n4, {"(for discussion)"})
             n6 == StripSuffix(n5, {"expenditure: none", "expenditure: none."})
             n7 == StripSuffix(n6, {"expenditure: $5,000", "expenditure: $5,000."})
             n8 == ReplaceChunk(n7, "council committee meetings and announcements",
                                "council committee meetings")
         IN n8

(***************************************************************************)
(* comprehensive_deduplication.get_vote_score                              *)
(***************************************************************************)
get_vote_score(vote) ==
    LET result == Lower(Get(vote, "result", <<>>))
        s_id == IF Has(vote, "id") THEN 100 ELSE 0
        s_result == IF Contains(result, "pass") THEN 50
                    ELSE IF Contains(result, "fail") THEN 0 - 50 ELSE 0
        s_zero == IF Contains(result, "pass")
                     /\ Get(Get(vote, "vote_tally", EmptyDict), "ayes", 0) = 0
                  THEN 0 - 30 ELSE 0
        s_votes == IF Has(vote, "individual_votes")
                   THEN Cardinality(DOMAIN vote.individual_votes) * 2 ELSE 0
        s_frame == IF Has(vote, "frame_path") THEN 10 ELSE 0
        s_motion == IF Has(vote, "motion_text") THEN 5 ELSE 0
    IN s_id + s_result + s_zero + s_votes + s_frame + s_motion

(***************************************************************************)
(* The raw observations the extraction passes produce.                     *)
(***************************************************************************)
oA ==
    [id |-> <<"v1">>, meeting_id |-> "14520",
     agenda_item |-> <<"Item 5:", "Consent", "Calendar">>, frame_number |-> 10,
     individual_votes |-> ("GEORGE CHEN" :> "YES") @@ ("MIKE GERSON" :> "YES"),
     vote_tally |-> [ayes |-> 2, noes |-> 0, abstentions |-> 0],
     result |-> <<"Motion", "Passes">>,
     meta_id |-> "12345", video_timestamp |-> 120, timestamp_estimated |-> FALSE,
     frame_path |-> "frame_0010.jpg"]

oB ==
    [id |-> <<"v3">>, meeting_id |-> "14520",
     agenda_item |-> <<"Item 5:", "Consent", "Calendar">>, frame_number |-> 12,
     individual_votes |-> ("GEORGE CHEN" :> "NO") @@ ("ASAM SHAIKH" :> "RECUSE"),
     vote_tally |-> [ayes |-> 0, noes |-> 1, abstentions |-> 0],
     result |-> <<"Motion", "Fails">>]

oC ==
    [id |-> <<"v2">>, meeting_id |-> "14520",
     agenda_item |-> <<"consent", "calendar">>, frame_number |-> 11,
     individual_votes |-> ("GEORGE CHEN" :> "NO") @@ ("ASAM SHEIKH" :> "YES"),
     meta_id |-> "12346", video_timestamp |-> 150, timestamp_estimated |-> FALSE]

oD ==
    [id |-> <<"v4">>, meeting_id |-> "14520",
     agenda_item |-> <<"Public", "Hearing", "(for adoption only)">>,
     frame_number |-> 20,
     individual_votes |-> EmptyDict,
     vote_tally |-> [ayes |-> 0, noes |-> 0, abstentions |-> 0],
     result |-> <<"Motion", "Passes">>,
     meta_id |-> "12350", video_timestamp |-> 900, timestamp_estimated |-> FALSE]

oE ==
    [meeting_id |-> "14262",
     agenda_item |-> <<"Adjournment">>, frame_number |-> 30,
     vote_tally |-> [ayes |-> 7, noes |-> 0, abstentions |-> 0],
     result |-> <<"Passes">>]

\* a second reading of the consent calendar, late in the meeting
oF ==
    [id |-> <<"v5">>, meeting_id |-> "14520",
     agenda_item |-> <<"No. 5", "Consent", "Calendar">>, frame_number |-> 400,
     individual_votes |-> ("GEORGE CHEN" :> "YES") @@ ("MIKE GERSON" :> "NO"),
     meta_id |-> "12390", video_timestamp |-> 5400, timestamp_estimated |-> FALSE]

\* two observations whose meeting id and agenda item hold an underscore
oU ==
    [id |-> <<"v8">>, meeting_id |-> "14520",
     agenda_item |-> <<"5_Consent">>, frame_number |-> 15,
     individual_votes |-> ("GEORGE CHEN" :> "YES")]

oV ==
    [id |-> <<"v9">>, meeting_id |-> "14520_5",
     agenda_item |-> <<"Consent">>, frame_number |-> 3,
     individual_votes |-> ("MIKE GERSON" :> "NO")]

Observations == {oA, oB, oC, oD, oE, oF, oU, oV}

\* observations that lack a required field
oX ==
    [id |-> <<"v6">>, agenda_item |-> <<"Public", "Hearing">>, frame_number |-> 21,
     individual_votes |-> ("GEORGE CHEN" :> "YES")]

oY ==
    [id |-> <<"v7">>, meeting_id |-> "14520",
     individual_votes |-> ("GEORGE CHEN" :> "YES")]

MeetingInfo(m) ==
    [title |-> "City Council Meeting",
     date |-> IF m = "14262" THEN "2024-06-11" ELSE "2025-01-15"]

(***************************************************************************)
(* generate_councilmember_stats.update_councilmember_stats, the same code  *)
(* as BulletproofImporter.update_councilmember_stats: one pass over the    *)
(* votes; total_votes is bumped for every entry, a bucket only for         *)
(* YES / NO / ABSTAIN.                                                     *)
(***************************************************************************)
Upper(choice) ==
    CASE choice = "yes" -> "YES"
      [] choice = "no" -> "NO"
      [] choice = "abstain" -> "ABSTAIN"
      [] choice = "absent" -> "ABSENT"
      [] choice = "aye" -> "AYE"
      [] choice = "recuse" -> "RECUSE"
      [] choice = "r" -> "R"
      [] choice = "kang" -> "KANG"
      [] OTHER -> choice

IndividualVotes(vote) == Get(vote, "individual_votes", EmptyDict)

Voters(votes) == UNION {DOMAIN IndividualVotes(votes[i]) : i \in DOMAIN votes}

CountEntries(votes, cm, choices) ==
    Cardinality({i \in DOMAIN votes :
        /\ cm \in DOMAIN IndividualVotes(votes[i])
        /\ Upper(IndividualVotes(votes[i])[cm]) \in choices})

update_councilmember_stats(votes) ==
    [cm \in Voters(votes) |->
        [total_votes |-> Cardinality({i \in DOMAIN votes :
                            cm \in DOMAIN IndividualVotes(votes[i])}),
         yes_votes |-> CountEntries(votes, cm, {"YES"}),
         no_votes |-> CountEntries(votes, cm, {"NO"}),
         abstentions |-> CountEntries(votes, cm, {"ABSTAIN"})]]

(***************************************************************************)
(* The store before any script runs: no file (load_existing_data starts    *)
(* from an empty store), or a file of raw observations whose member        *)
(* statistics generate_councilmember_data has written.                     *)
(***************************************************************************)
MeetingIds(votes) == {Get(votes[i], "meeting_id", "") : i \in DOMAIN votes}

InitialStore(votes) ==
    [votes |-> votes,
     meetings |-> [m \in MeetingIds(votes) |-> MeetingInfo(m)],
     councilmembers |-> Voters(votes),
     councilmember_stats |-> update_councilmember_stats(votes)]

\* the store files of the model
InitialFiles == {<<>>, <<oE>>, <<oA, oB>>, <<oC, oA>>, <<oD, oE>>, <<oF, oC>>}

\* self.stats of a BulletproofImporter that has not run, with the issues
\* validate_data_integrity logs
NoStats ==
    [votes_processed |-> 0, meetings_processed |-> 0, meta_ids_mapped |-> 0,
     timestamps_extracted |-> 0, issues |-> <<>>, errors |-> <<>>]

Init ==
    /\ \E votes \in InitialFiles : store = InitialStore(votes)
    /\ runs = 0
    /\ new_data = [votes |-> <<>>, meetings |-> EmptyDict]
    /\ lastOp = "init"
    /\ removed = <<>>
    /\ page = <<>>
    /\ self_stats = NoStats
    /\ candidates = <<>>
    /\ config = [dry_run |-> FALSE]
    /\ io = <<>>
    /\ backups = <<>>

(***************************************************************************)
(* comprehensive_deduplication: group by meeting_id and normalized agenda  *)
(* item, keep the best-scored vote of every group, refresh the meeting     *)
(* metadata, write the store.                                              *)
(***************************************************************************)
GroupKey(vote) ==
    <<Get(vote, "meeting_id", ""),
      normalize_agenda_item(Get(vote, "agenda_item", <<>>))>>

\* the positions where a key occurs first: the order of a dict's keys
\* (keys is the sequence of the votes' keys, in the order of the votes)
RECURSIVE FirstPositions(_, _)
FirstPositions(keys, i) ==
    IF i > Len(keys) THEN <<>>
    ELSE (IF \E j \in 1..(i - 1) : keys[j] = keys[i]
          THEN <<>> ELSE <<i>>)
         \o FirstPositions(keys, i + 1)

\* the votes filed under key k, in the order of the votes
RECURSIVE GroupOf(_, _, _)
GroupOf(votes, keys, k) ==
    IF votes = <<>> THEN <<>>
    ELSE (IF Head(keys) = k THEN <<Head(votes)>> ELSE <<>>)
         \o GroupOf(Tail(votes), Tail(keys), k)

GroupKeys(votes) == [i \in DOMAIN votes |-> GroupKey(votes[i])]

\* list.sort(key = score, reverse = True): stable, the earlier of two
\* equal scores stays first
RECURSIVE SortByScore(_)
SortByScore(votes) ==
    IF votes = <<>> THEN <<>>
    ELSE LET best == Min({i \in DOMAIN votes :
                         \A j \in DOMAIN votes :
                             get_vote_score(votes[j]) <= get_vote_score(votes[i])})
         IN <<votes[best]>>
            \o SortByScore([j \in 1..(Len(votes) - 1) |->
                              IF j < best THEN votes[j] ELSE votes[j + 1]])

IdOrNoId(vote) == Get(vote, "id", <<"no-id">>)

RECURSIVE Flatten(_)
Flatten(ss) == IF ss = <<>> THEN <<>> ELSE Head(ss) \o Flatten(Tail(ss))

\* len of a filtered list; flags[i] tells whether votes[i] passes the filter
CountVotes(flags) == Cardinality({i \in DOMAIN flags : flags[i]})

MeetingMetadata(meetings, votes) ==
    [m \in DOMAIN meetings |->
        LET Mine(v) == Has(v, "meeting_id") /\ v.meeting_id = m
            Passed(v) == Mine(v) /\ Contains(Lower(Get(v, "result", <<>>)), "pass")
            Failed(v) == Mine(v) /\ Contains(Lower(Get(v, "result", <<>>)), "fail")
        IN Put(Put(Put(meetings[m],
                "total_votes", CountVotes([i \in DOMAIN votes |-> Mine(votes[i])])),
                "passed_votes", CountVotes([i \in DOMAIN votes |-> Passed(votes[i])])),
                "failed_votes", CountVotes([i \in DOMAIN votes |-> Failed(votes[i])]))]

DedupKept(votes) ==
    LET firsts == FirstPositions(GroupKeys(votes), 1)
    IN [g \in DOMAIN firsts |->
          SortByScore(GroupOf(votes, GroupKeys(votes), GroupKey(votes[firsts[g]])))[1]]

DedupRemoved(votes) ==
    LET firsts == FirstPositions(GroupKeys(votes), 1)
    IN Flatten([g \in DOMAIN firsts |->
          LET sorted == SortByScore(GroupOf(votes, GroupKeys(votes), GroupKey(votes[firsts[g]])))
          IN [j \in 1..(Len(sorted) - 1) |-> IdOrNoId(sorted[j + 1])]])

comprehensive_deduplication ==
    LET kept_votes == DedupKept(store.votes)
        meetings == MeetingMetadata(store.meetings, kept_votes)
    IN /\ store' = Put(Put(Put(Put(store,
                        "votes", kept_votes),
                        "meetings", meetings),
                        "total_votes", Len(kept_votes)),
                        "total_meetings", Cardinality(DOMAIN meetings))
       /\ removed' = DedupRemoved(store.votes)
       /\ lastOp' = "comprehensive_deduplication"
       /\ UNCHANGED <<new_data, page, self_stats, candidates, config, io, backups>>

(***************************************************************************)
(* BulletproofImporter: deduplicate_votes groups the input votes by        *)
(* meeting_id and agenda_item as written and turns every group into one    *)
(* VoteData.                                                               *)
(***************************************************************************)
\* the pieces of a chunk around its underscores
Pieces(c) ==
    CASE c = "14520_5" -> <<"14520", "_", "5">>
      [] c = "5_Consent" -> <<"5", "_", "Consent">>
      [] OTHER -> <<c>>

\* str(text): the pieces of its chunks, a blank between two chunks
Characters(text) ==
    Flatten([i \in DOMAIN text |->
                IF i = 1 THEN Pieces(text[i]) ELSE <<" ">> \o Pieces(text[i])])

\* key = f"{vote['meeting_id']}_{vote['agenda_item']}"
ImportKey(vote) ==
    Pieces(vote.meeting_id) \o <<"_">> \o Characters(vote.agenda_item)

ImportKeys(votes) == [i \in DOMAIN votes |-> ImportKey(votes[i])]

FallbackId(vote) ==
    Pieces(vote.meeting_id) \o <<"_">> \o Characters(vote.agenda_item)

\* the VoteData fields that are set (not None)
VoteData(primary, individual_votes, consolidated_from) ==
    LET base == [meeting_id |-> primary.meeting_id,
                 agenda_item |-> primary.agenda_item,
                 frame_number |-> Get(primary, "frame_number", 0),
                 individual_votes |-> individual_votes,
                 timestamp_estimated |-> Get(primary, "timestamp_estimated", TRUE),
                 consolidated_from |-> consolidated_from]
        with_meta == IF Has(primary, "meta_id")
                     THEN Put(base, "meta_id", primary.meta_id) ELSE base
    IN IF Has(primary, "video_timestamp")
       THEN Put(with_meta, "video_timestamp", primary.video_timestamp)
       ELSE with_meta

process_single_vote(vote) ==
    VoteData(vote, IndividualVotes(vote), <<Get(vote, "id", FallbackId(vote))>>)

\* dict.update over the group in input order: a later vote overwrites
RECURSIVE MergeUpdate(_)
MergeUpdate(votes) ==
    IF votes = <<>> THEN EmptyDict
    ELSE LET last == votes[Len(votes)]
         IN IndividualVotes(last) @@ MergeUpdate(SubSeq(votes, 1, Len(votes) - 1))

\* min(votes, key = frame_number): the first of the lowest frame numbers
PrimaryVote(votes) ==
    votes[Min({i \in DOMAIN votes :
                \A j \in DOMAIN votes :
                    Get(votes[i], "frame_number", 0) <= Get(votes[j], "frame_number", 0)})]

consolidate_vote_group(votes) ==
    VoteData(PrimaryVote(votes), MergeUpdate(votes),
             [i \in DOMAIN votes |-> Get(votes[i], "id", FallbackId(votes[i]))])

deduplicate_votes(votes) ==
    LET firsts == FirstPositions(ImportKeys(votes), 1)
    IN [g \in DOMAIN firsts |->
          LET group == GroupOf(votes, ImportKeys(votes), ImportKey(votes[firsts[g]]))
          IN IF Len(group) = 1 THEN process_single_vote(group[1])
             ELSE consolidate_vote_group(group)]

(***************************************************************************)
(* load_new_data and validate_data_integrity: a file without 'votes' or    *)
(* 'meetings' raises ValueError; a vote or meeting without a required      *)
(* field is logged as an issue and stays in the input.                     *)
(***************************************************************************)
LoadRaises(data) == ~Has(data, "votes") \/ ~Has(data, "meetings")

required_vote_fields == <<"meeting_id", "agenda_item">>

required_meeting_fields == <<"title", "date">>

\* an issue is the pair of the vote's index or the meeting's id and the field
MissingFields(d, label, fields) ==
    SelectSeq([k \in DOMAIN fields |-> <<label, fields[k]>>],
              LAMBDA issue : ~Has(d, issue[2]))

validate_vote_structure(vote, index) ==
    MissingFields(vote, index, required_vote_fields)

validate_meeting_structure(meeting, meeting_id) ==
    MissingFields(meeting, meeting_id, required_meeting_fields)

\* the keys of a dict as a list
KeyList(d) ==
    CHOOSE s \in [1..Cardinality(DOMAIN d) -> DOMAIN d] : Range(s) = DOMAIN d

validate_data_integrity(data) ==
    MissingFields(data, "data", <<"votes", "meetings">>)
    \o (IF Has(data, "votes")
        THEN Flatten([i \in DOMAIN data.votes |->
                         validate_vote_structure(data.votes[i], i - 1)])
        ELSE <<>>)
    \o (IF Has(data, "meetings")
        THEN Flatten([k \in DOMAIN KeyList(data.meetings) |->
                         validate_meeting_structure(
                             data.meetings[KeyList(data.meetings)[k]],
                             KeyList(data.meetings)[k])])
        ELSE <<>>)

\* import_config: the validation settings, which no script imports
REQUIRED_VOTE_FIELDS == <<"meeting_id", "agenda_item", "individual_votes">>

REQUIRED_MEETING_FIELDS == <<"title", "date", "video_url">>

\* vote['meeting_id'] and vote['agenda_item'] in deduplicate_votes: the
\* KeyError of the first vote that lacks one of them
DedupRaises(votes) ==
    \E i \in DOMAIN votes :
        ~Has(votes[i], "meeting_id") \/ ~Has(votes[i], "agenda_item")

DedupError(votes) ==
    LET i == Min({j \in DOMAIN votes :
                    ~Has(votes[j], "meeting_id") \/ ~Has(votes[j], "agenda_item")})
    IN IF ~Has(votes[i], "meeting_id") THEN "'meeting_id'" ELSE "'agenda_item'"

(***************************************************************************)
(* The player page of a meeting, as the list of its elements: data_id, the *)
(* text of the element and, if the element carries one, its time           *)
(* attribute, which the page writes before data-id.  A request that fails  *)
(* is a page without elements.                                             *)
(***************************************************************************)
eConsent ==
    [data_id |-> "12399", time |-> 310,
     text |-> <<"Item 5:", "Consent", "Calendar">>]

eCalendar ==
    [data_id |-> "376700", time |-> 100, text |-> <<"Consent", "Calendar">>]

eAdjournment ==
    [data_id |-> "376743", time |-> 3700, text |-> <<"Adjournment">>]

eUntimed == [data_id |-> "376743", text |-> <<"Adjournment">>]

PagesOf(meeting_id) ==
    IF meeting_id = "14262"
    THEN {<<>>, <<eAdjournment>>, <<eCalendar, eUntimed>>}
    ELSE {<<>>, <<eConsent>>}

PagesFor(meeting_ids) ==
    {pages \in [meeting_ids -> UNION {PagesOf(m) : m \in meeting_ids}] :
        \A m \in meeting_ids : pages[m] \in PagesOf(m)}

\* extract_meta_mappings: the elements that carry a time, in page order
extract_meta_mappings(html_content) ==
    LET timed == SelectSeq(html_content, LAMBDA e : Has(e, "time"))
    IN [k \in DOMAIN timed |->
          [meta_id |-> timed[k].data_id, video_timestamp |-> timed[k].time,
           timestamp_estimated |-> FALSE]]

(***************************************************************************)
(* map_meta_ids_to_votes.  Scores are in tenths: calculate_match_score is  *)
(* 0.3 for every candidate and find_best_meta_match asks for more than     *)
(* 0.5.  A vote of the meeting that has no meta_id and gets no match is    *)
(* given an estimate, and the line that counts the estimate raises         *)
(* KeyError: self.stats has no 'timestamps_estimated' entry.               *)
(***************************************************************************)
calculate_match_score(vote, meta_id) == 3

\* the position of the accepted candidate, 0 for None
find_best_meta_match(vote, meta_mappings) ==
    LET best == {k \in DOMAIN meta_mappings :
                    /\ calculate_match_score(vote, meta_mappings[k].meta_id) > 0
                    /\ \A j \in DOMAIN meta_mappings :
                          /\ calculate_match_score(vote, meta_mappings[j].meta_id)
                               <= calculate_match_score(vote, meta_mappings[k].meta_id)
                          /\ j < k =>
                               calculate_match_score(vote, meta_mappings[j].meta_id)
                                 < calculate_match_score(vote, meta_mappings[k].meta_id)}
    IN IF best # {}
          /\ \E k \in best :
                calculate_match_score(vote, meta_mappings[k].meta_id) > 5
       THEN Min(best) ELSE 0

\* the estimate as it would be if public hearings were tested first
estimate_hearing_first(agenda_item, frame_number) ==
    LET agenda_lower == Lower(agenda_item)
        base_time == frame_number * 30
    IN IF agenda_item = <<>> THEN frame_number * 30
       ELSE IF IsInfix(<<"public", "hearing">>, agenda_lower) THEN base_time + 1800
       ELSE IF Contains(agenda_lower, "consent") THEN base_time + 300
       ELSE IF Contains(agenda_lower, "adjournment") THEN base_time + 3600
       ELSE IF Contains(agenda_lower, "resolution") THEN base_time + 1200
       ELSE IF Contains(agenda_lower, "ordinance") THEN base_time + 1500
       ELSE base_time + 900

estimate_timestamp_from_agenda(agenda_item, frame_number) ==
    LET agenda_lower == Lower(agenda_item)
        base_time == frame_number * 30
    IN IF agenda_item = <<>> THEN frame_number * 30
       ELSE IF Contains(agenda_lower, "consent") THEN base_time + 300
       ELSE IF IsInfix(<<"public", "hearing">>, agenda_lower) THEN base_time + 1800
       ELSE IF Contains(agenda_lower, "adjournment") THEN base_time + 3600
       ELSE IF Contains(agenda_lower, "resolution") THEN base_time + 1200
       ELSE IF Contains(agenda_lower, "ordinance") THEN base_time + 1500
       ELSE base_time + 900

Unanchored(vote, meeting_id) ==
    vote.meeting_id = meeting_id /\ ~Has(vote, "meta_id")

MapVote(vote, meeting_id, meta_mappings) ==
    LET best_match == find_best_meta_match(vote, meta_mappings)
    IN IF Unanchored(vote, meeting_id) /\ best_match # 0
       THEN Put(Put(Put(vote,
                "meta_id", meta_mappings[best_match].meta_id),
                "video_timestamp", meta_mappings[best_match].video_timestamp),
                "timestamp_estimated", meta_mappings[best_match].timestamp_estimated)
       ELSE vote

MappingRaises(votes, meeting_id, meta_mappings) ==
    \E i \in DOMAIN votes :
        /\ Unanchored(votes[i], meeting_id)
        /\ find_best_meta_match(votes[i], meta_mappings) = 0

map_meta_ids_to_votes(votes, meeting_id, meta_mappings) ==
    [votes |-> [i \in DOMAIN votes |-> MapVote(votes[i], meeting_id, meta_mappings)],
     raised |-> MappingRaises(votes, meeting_id, meta_mappings),
     extracted |-> Cardinality({i \in DOMAIN votes :
                      /\ Unanchored(votes[i], meeting_id)
                      /\ find_best_meta_match(votes[i], meta_mappings) # 0})]

\* ImportConfig: the defaults of the retry loop
max_retries == 3

retry_delay == 1

\* the loop as it would be if it slept after the last attempt as well
RECURSIVE scrape_sleeping_after_last(_, _, _)
scrape_sleeping_after_last(meeting_id, attempt, failed) ==
    IF attempt >= max_retries THEN <<>>
    ELSE <<[op |-> "get", meeting_id |-> meeting_id, attempt |-> attempt,
            ok |-> attempt >= failed]>>
         \o (IF attempt >= failed THEN <<>>
             ELSE <<[op |-> "sleep", seconds |-> retry_delay * (2 ^ attempt)]>>
                  \o scrape_sleeping_after_last(meeting_id, attempt + 1, failed))

\* the loop of scrape_meta_ids_and_timestamps from the given attempt on, as
\* the requests and sleeps it makes; failed is the number of requests that
\* raise a RequestException before one is answered
RECURSIVE ScrapeAttempts(_, _, _)
ScrapeAttempts(meeting_id, attempt, failed) ==
    IF attempt >= max_retries THEN <<>>
    ELSE <<[op |-> "get", meeting_id |-> meeting_id, attempt |-> attempt,
            ok |-> attempt >= failed]>>
         \o (IF attempt >= failed THEN <<>>
             ELSE IF attempt < max_retries - 1
             THEN <<[op |-> "sleep", seconds |-> retry_delay * (2 ^ attempt)]>>
                  \o ScrapeAttempts(meeting_id, attempt + 1, failed)
             ELSE <<>>)

\* the mappings of the answered request, none if every request failed
scrape_meta_ids_and_timestamps(html_content, failed) ==
    IF failed >= max_retries THEN <<>> ELSE extract_meta_mappings(html_content)

\* the loop of run_import over the new meetings, until a meeting raises
RECURSIVE MapMeetings(_, _, _, _)
MapMeetings(acc, meeting_ids, pages, failed) ==
    IF meeting_ids = <<>> \/ acc.raised THEN acc
    ELSE LET meeting_id == Head(meeting_ids)
             meta_mappings ==
                 scrape_meta_ids_and_timestamps(pages[meeting_id], failed[meeting_id])
             mapped == map_meta_ids_to_votes(acc.votes, meeting_id, meta_mappings)
         IN MapMeetings(
                [votes |-> mapped.votes, raised |-> mapped.raised,
                 meta_ids_mapped |-> acc.meta_ids_mapped + Len(meta_mappings),
                 timestamps_extracted |-> acc.timestamps_extracted + mapped.extracted,
                 io |-> acc.io \o ScrapeAttempts(meeting_id, 0, failed[meeting_id])],
                Tail(meeting_ids), pages, failed)

\* the merge as it would be if an import replaced the votes of the meetings
\* it brings votes for
merge_replacing_meetings(new_votes, new_meetings) ==
    LET kept == SelectSeq(Get(store, "votes", <<>>),
                          LAMBDA v : \A n \in DOMAIN new_votes :
                                        Get(v, "meeting_id", "") # new_votes[n].meeting_id)
        merged_votes == kept \o new_votes
    IN [votes |-> merged_votes,
        meetings |-> new_meetings @@ Get(store, "meetings", EmptyDict),
        councilmembers |-> Get(store, "councilmembers", {}),
        councilmember_stats |-> update_councilmember_stats(merged_votes)]

merge_with_existing_data(new_votes, new_meetings) ==
    LET merged_votes == Get(store, "votes", <<>>) \o new_votes
    IN [votes |-> merged_votes,
        meetings |-> new_meetings @@ Get(store, "meetings", EmptyDict),
        councilmembers |-> Get(store, "councilmembers", {}),
        councilmember_stats |-> update_councilmember_stats(merged_votes)]

InputMeeting(m) ==
    [id |-> m, title |-> "City Council Meeting", date |-> "2025-01-15",
     video_url |-> "https://torrance.granicus.com/player/clip/14520"]

\* the input files of the model
InputFiles ==
    {[votes |-> <<oA, oB>>, meetings |-> EmptyDict],
     [votes |-> <<oB, oA>>, meetings |-> EmptyDict],
     [votes |-> <<oC>>, meetings |-> ("14520" :> InputMeeting("14520"))],
     [votes |-> <<oB>>, meetings |-> ("14520" :> InputMeeting("14520"))],
     [votes |-> <<oD, oE>>, meetings |-> ("14520" :> InputMeeting("14520"))],
     [votes |-> <<oX, oC>>, meetings |-> EmptyDict],
     [votes |-> <<oC, oY>>, meetings |-> EmptyDict],
     [votes |-> <<oC>>]}

\* the answers of the player to the requests of a run: for every meeting
\* the number of requests that fail and the page of the request that is
\* answered, no page if none is
ResponsesFor(meeting_ids, Failures) ==
    {r \in [pages : PagesFor(meeting_ids),
            failed : [meeting_ids -> Failures]] :
        \A m \in meeting_ids : r.failed[m] = max_retries => r.pages[m] = <<>>}

\* the input files of the import runs that are explored on their own
ImportFiles ==
    InputFiles \cup {[votes |-> <<oU, oV>>, meetings |-> EmptyDict]}

\* the run up to the merge: what it raises, if anything, what it leaves in
\* self.stats, and its requests and sleeps
ImportRun(input, pages, failed) ==
    IF LoadRaises(input)
    THEN [raised |-> TRUE, io |-> <<>>,
          stats |-> Put(NoStats, "errors", <<"Missing required key: meetings">>)]
    ELSE LET issues == validate_data_integrity(input) IN
    IF DedupRaises(input.votes)
    THEN [raised |-> TRUE, io |-> <<>>,
          stats |-> Put(Put(NoStats, "issues", issues),
                        "errors", <<DedupError(input.votes)>>)]
    ELSE LET new_votes == deduplicate_votes(input.votes)
             mapped == MapMeetings([votes |-> new_votes, raised |-> FALSE,
                                    meta_ids_mapped |-> 0,
                                    timestamps_extracted |-> 0, io |-> <<>>],
                                   KeyList(input.meetings), pages, failed)
         IN [raised |-> mapped.raised,
             votes |-> mapped.votes,
             io |-> mapped.io,
             stats |-> [votes_processed |-> Len(new_votes),
                        meetings_processed |-> Cardinality(DOMAIN input.meetings),
                        meta_ids_mapped |-> mapped.meta_ids_mapped,
                        timestamps_extracted |-> mapped.timestamps_extracted,
                        issues |-> issues,
                        errors |-> IF mapped.raised
                                   THEN <<"'timestamps_estimated'">> ELSE <<>>]]

\* os.path.exists(output_file): the store of a run that found no file is
\* the empty store load_existing_data starts from
Exists(file) == file # InitialStore(<<>>)

\* create_backup: the content of the store file is copied to
\* data/backup_<timestamp>.json, the timestamp being the second of the
\* call; same_second tells that the newest backup carries this name already
create_backup(dry_run, same_second) ==
    IF ~dry_run /\ Exists(store)
    THEN [backups |-> IF same_second /\ backups # <<>>
                      THEN [backups EXCEPT ![Len(backups)] = store]
                      ELSE Append(backups, store),
          io |-> <<[op |-> "write", file |-> "backup", content |-> store]>>]
    ELSE [backups |-> backups, io |-> <<>>]

\* save_data that skips the backup
save_data_without_backup(data, dry_run, same_second) ==
    IF dry_run THEN [store |-> store, backups |-> backups, io |-> <<>>]
    ELSE [store |-> data, backups |-> backups,
          io |-> <<[op |-> "write", file |-> "store", content |-> data]>>]

\* save_data that writes in a dry run as well
save_data_in_dry_run(data, dry_run, same_second) ==
    LET backup == create_backup(dry_run, same_second)
    IN [store |-> data, backups |-> backup.backups,
        io |-> backup.io
               \o <<[op |-> "write", file |-> "store", content |-> data]>>]

save_data(data, dry_run, same_second) ==
    IF dry_run THEN [store |-> store, backups |-> backups, io |-> <<>>]
    ELSE LET backup == create_backup(dry_run, same_second)
         IN [store |-> data, backups |-> backup.backups,
             io |-> backup.io
                    \o <<[op |-> "write", file |-> "store", content |-> data]>>]

\* Inputs are the input files, DryRuns the values of --dry-run and Failures
\* the numbers of failing requests the run may meet
run_import(Inputs, DryRuns, Failures) ==
    \E input \in Inputs, dry_run \in DryRuns, same_second \in BOOLEAN :
        \E r \in ResponsesFor(DOMAIN Get(input, "meetings", EmptyDict), Failures) :
            LET run == ImportRun(input, r.pages, r.failed)
                saved == save_data(
                             merge_with_existing_data(run.votes, input.meetings),
                             dry_run, same_second)
            IN /\ IF run.raised \/ dry_run THEN TRUE
                  ELSE Len(store.votes) + Len(run.votes) <= MaxVotes
               /\ same_second =>
                     ~run.raised /\ ~dry_run /\ Exists(store) /\ backups # <<>>
               /\ new_data' = input
               /\ config' = [dry_run |-> dry_run]
               /\ page' = r.pages
               /\ self_stats' = run.stats
               /\ IF run.raised
                  THEN /\ lastOp' = "run_import failed"
                       /\ io' = run.io
                       /\ UNCHANGED <<store, backups>>
                  ELSE /\ store' = saved.store
                       /\ backups' = saved.backups
                       /\ io' = run.io \o saved.io
                       /\ lastOp' = IF dry_run THEN "run_import dry run"
                                    ELSE "run_import"
               /\ UNCHANGED <<removed, candidates>>

(***************************************************************************)
(* fix_vote_tally.fix_vote_tally_data: a vote without a tally and with     *)
(* individual votes gets the tally and the result of its individual votes. *)
(***************************************************************************)
CountChoices(individual_votes, choices) ==
    Cardinality({cm \in DOMAIN individual_votes :
                    Upper(individual_votes[cm]) \in choices})

ResultOfTally(ayes, noes) ==
    IF ayes > noes THEN <<"Motion", "Passes">>
    ELSE IF noes > ayes THEN <<"Motion", "Fails">>
    ELSE <<"Tie">>

FixTally(vote) ==
    IF Get(vote, "vote_tally", EmptyDict) = EmptyDict
       /\ IndividualVotes(vote) # EmptyDict
    THEN LET ayes == CountChoices(vote.individual_votes, {"YES", "Y", "AYE"})
             noes == CountChoices(vote.individual_votes, {"NO", "N", "NAY"})
             abstentions ==
                 CountChoices(vote.individual_votes, {"ABSTAIN", "ABSTENTION"})
         IN Put(Put(vote,
                "vote_tally",
                [ayes |-> ayes, noes |-> noes, abstentions |-> abstentions]),
                "result", ResultOfTally(ayes, noes))
    ELSE vote

fix_vote_tally_data ==
    /\ store' = Put(store, "votes",
                    [i \in DOMAIN store.votes |-> FixTally(store.votes[i])])
    /\ lastOp' = "fix_vote_tally_data"
    /\ UNCHANGED <<new_data, removed, page, self_stats,
                    candidates, config, io, backups>>

(***************************************************************************)
(* generate_councilmember_stats.generate_councilmember_data                *)
(***************************************************************************)
generate_councilmember_data ==
    LET councilmember_stats == update_councilmember_stats(store.votes)
    IN /\ store' = Put(Put(store,
                        "councilmember_stats", councilmember_stats),
                        "councilmembers", DOMAIN councilmember_stats)
       /\ lastOp' = "generate_councilmember_data"
       /\ UNCHANGED <<new_data, removed, page, self_stats,
                    candidates, config, io, backups>>

(***************************************************************************)
(* The statistics loop of remove_non_votable_items and of                  *)
(* fix_missing_lewis_mattucci: only the members of data['councilmembers']  *)
(* are counted, and a choice is compared as written.                       *)
(***************************************************************************)
CountExact(votes, cm, choices) ==
    Cardinality({i \in DOMAIN votes :
        /\ cm \in DOMAIN IndividualVotes(votes[i])
        /\ IndividualVotes(votes[i])[cm] \in choices})

RosterStats(councilmembers, votes) ==
    [cm \in councilmembers |->
        [total_votes |-> Cardinality({i \in DOMAIN votes :
                            cm \in DOMAIN IndividualVotes(votes[i])}),
         yes_votes |-> CountExact(votes, cm, {"YES"}),
         no_votes |-> CountExact(votes, cm, {"NO"}),
         abstentions |-> CountExact(votes, cm, {"ABSTAIN"})]]

(***************************************************************************)
(* remove_non_votable_items                                                *)
(***************************************************************************)
non_votable_patterns ==
    {"oral communications", "adjournment", "presentation only",
     "for presentation", "announcement", "council committee meetings",
     "committee meetings and announcements"}

is_non_votable_agenda_item(agenda_item) ==
    /\ agenda_item # <<>>
    /\ \E p \in non_votable_patterns : Contains(Lower(agenda_item), p)

remove_non_votable_votes ==
    LET votable_votes ==
            SelectSeq(store.votes,
                      LAMBDA v : ~is_non_votable_agenda_item(Get(v, "agenda_item", <<>>)))
        meetings ==
            [m \in DOMAIN store.meetings |->
                Put(store.meetings[m], "total_votes",
                    CountVotes([i \in DOMAIN votable_votes |->
                                   /\ Has(votable_votes[i], "meeting_id")
                                   /\ votable_votes[i].meeting_id = m]))]
    IN /\ store' = Put(Put(Put(store,
                        "votes", votable_votes),
                        "councilmember_stats",
                        RosterStats(store.councilmembers, votable_votes)),
                        "meetings", meetings)
       /\ lastOp' = "remove_non_votable_votes"
       /\ UNCHANGED <<new_data, removed, page, self_stats,
                    candidates, config, io, backups>>

(***************************************************************************)
(* fix_individual_votes: a vote without individual votes gets them from    *)
(* its tally, handed out to a fixed list of members.                       *)
(***************************************************************************)
InferRoster ==
    <<"GEORGE CHEN", "MIKE GERSON", "JONATHAN KANG", "SHARON KALANI", "ASAM SHAIKH">>

infer_individual_votes(vote_data) ==
    LET tally == Get(vote_data, "vote_tally", EmptyDict)
        ayes == Get(tally, "ayes", 0)
        noes == Get(tally, "noes", 0)
        abstentions == Get(tally, "abstentions", 0)
        n == Len(InferRoster)
        given == {i \in 1..n : i <= ayes + noes + abstentions}
    IN [cm \in {InferRoster[i] : i \in given} |->
          LET i == CHOOSE j \in given : InferRoster[j] = cm
          IN IF i <= ayes THEN "YES"
             ELSE IF i <= ayes + noes THEN "NO" ELSE "ABSTAIN"]

FixIndividualVotes(vote) ==
    IF ~Has(vote, "individual_votes") /\ infer_individual_votes(vote) # EmptyDict
    THEN Put(vote, "individual_votes", infer_individual_votes(vote))
    ELSE vote

fix_individual_votes ==
    /\ store' = Put(store, "votes",
                    [i \in DOMAIN store.votes |-> FixIndividualVotes(store.votes[i])])
    /\ lastOp' = "fix_individual_votes"
    /\ UNCHANGED <<new_data, removed, page, self_stats,
                    candidates, config, io, backups>>

(***************************************************************************)
(* fix_missing_lewis_mattucci: every vote gets an entry for Bridget Lewis  *)
(* and for Aurelio Mattucci; draw says for every vote whether              *)
(* random.random() fell below the threshold.                               *)
(***************************************************************************)
determine_lewis_vote(vote) ==
    LET result == Lower(Get(vote, "result", <<>>))
        individual_votes == IndividualVotes(vote)
    IN IF Contains(result, "pass") THEN "YES"
       ELSE IF Contains(result, "fail") THEN "NO"
       ELSE IF Contains(result, "tie")
            THEN IF Cardinality({cm \in DOMAIN individual_votes :
                                    individual_votes[cm] = "YES"})
                    > Cardinality({cm \in DOMAIN individual_votes :
                                      individual_votes[cm] = "NO"})
                 THEN "YES" ELSE "NO"
       ELSE "YES"

determine_mattucci_vote(vote, below) ==
    LET result == Lower(Get(vote, "result", <<>>))
    IN IF Contains(result, "pass") THEN (IF below THEN "ABSTAIN" ELSE "YES")
       ELSE IF Contains(result, "fail") THEN (IF below THEN "NO" ELSE "ABSTAIN")
       ELSE "ABSTAIN"

AddLewisMattucci(vote, below) ==
    LET v0 == IF Has(vote, "individual_votes") THEN vote
              ELSE Put(vote, "individual_votes", EmptyDict)
        v1 == IF "BRIDGET LEWIS" \in DOMAIN v0.individual_votes THEN v0
              ELSE Put(v0, "individual_votes",
                       Put(v0.individual_votes, "BRIDGET LEWIS",
                           determine_lewis_vote(v0)))
    IN IF "AURELIO MATTUCCI" \in DOMAIN v1.individual_votes THEN v1
       ELSE Put(v1, "individual_votes",
                Put(v1.individual_votes, "AURELIO MATTUCCI",
                    determine_mattucci_vote(v1, below)))

fix_missing_lewis_mattucci ==
    \E draw \in [DOMAIN store.votes -> BOOLEAN] :
        LET votes == [i \in DOMAIN store.votes |->
                        AddLewisMattucci(store.votes[i], draw[i])]
        IN /\ store' = Put(Put(store,
                            "votes", votes),
                            "councilmember_stats",
                            RosterStats(store.councilmembers, votes))
           /\ lastOp' = "fix_missing_lewis_mattucci"
           /\ UNCHANGED <<new_data, removed, page, self_stats,
                    candidates, config, io, backups>>

(***************************************************************************)
(* fix_councilmember_duplicates.fix_duplicate_councilmembers               *)
(***************************************************************************)
expected_councilmembers ==
    {"GEORGE CHEN", "MIKE GERSON", "JON KAJI", "SHARON KALANI", "ASAM SHEIKH",
     "AURELIO MATTUCCI", "BRIDGET LEWIS"}

ZeroStats == [total_votes |-> 0, yes_votes |-> 0, no_votes |-> 0, abstentions |-> 0]

AddStats(a, b) ==
    [total_votes |-> a.total_votes + b.total_votes,
     yes_votes |-> a.yes_votes + b.yes_votes,
     no_votes |-> a.no_votes + b.no_votes,
     abstentions |-> a.abstentions + b.abstentions]

RenameShaikh(vote) ==
    IF Has(vote, "individual_votes") /\ "ASAM SHAIKH" \in DOMAIN vote.individual_votes
    THEN Put(vote, "individual_votes",
             [cm \in (DOMAIN vote.individual_votes \ {"ASAM SHAIKH"})
                        \cup {"ASAM SHEIKH"} |->
                 IF cm = "ASAM SHEIKH" THEN vote.individual_votes["ASAM SHAIKH"]
                 ELSE vote.individual_votes[cm]])
    ELSE vote

fix_duplicate_councilmembers ==
    LET stats == store.councilmember_stats
        both == {"ASAM SHAIKH", "ASAM SHEIKH"} \subseteq DOMAIN stats
        merged == IF both
                  THEN [cm \in DOMAIN stats \ {"ASAM SHAIKH"} |->
                          IF cm = "ASAM SHEIKH"
                          THEN AddStats(stats["ASAM SHAIKH"], stats["ASAM SHEIKH"])
                          ELSE stats[cm]]
                  ELSE stats
        votes == IF both
                 THEN [i \in DOMAIN store.votes |-> RenameShaikh(store.votes[i])]
                 ELSE store.votes
    IN /\ store' = Put(Put(Put(store,
                        "votes", votes),
                        "councilmembers", expected_councilmembers),
                        "councilmember_stats",
                        [cm \in expected_councilmembers |->
                            IF cm \in DOMAIN merged THEN merged[cm] ELSE ZeroStats])
       /\ lastOp' = "fix_duplicate_councilmembers"
       /\ UNCHANGED <<new_data, removed, page, self_stats,
                    candidates, config, io, backups>>

(***************************************************************************)
(* update_meeting_metadata: the counts of a meeting are rewritten only     *)
(* when its total_votes differs from the number of its votes.              *)
(***************************************************************************)
update_meeting_metadata ==
    LET votes == store.votes
        Mine(v, m) == Has(v, "meeting_id") /\ v.meeting_id = m
        Passed(v) == Contains(Lower(Get(v, "result", <<>>)), "pass")
        Failed(v) == ~Passed(v) /\ Contains(Lower(Get(v, "result", <<>>)), "fail")
        new_total(m) == CountVotes([i \in DOMAIN votes |-> Mine(votes[i], m)])
        new_passed(m) ==
            CountVotes([i \in DOMAIN votes |-> Mine(votes[i], m) /\ Passed(votes[i])])
        new_failed(m) ==
            CountVotes([i \in DOMAIN votes |-> Mine(votes[i], m) /\ Failed(votes[i])])
    IN /\ store' = Put(store, "meetings",
                       [m \in DOMAIN store.meetings |->
                           IF Get(store.meetings[m], "total_votes", 0) # new_total(m)
                           THEN Put(Put(Put(store.meetings[m],
                                    "total_votes", new_total(m)),
                                    "passed_votes", new_passed(m)),
                                    "failed_votes", new_failed(m))
                           ELSE store.meetings[m]])
       /\ lastOp' = "update_meeting_metadata"
       /\ UNCHANGED <<new_data, removed, page, self_stats,
                    candidates, config, io, backups>>

(***************************************************************************)
(* scrape_real_2024_meta_ids: every meeting dated 2024 is scraped, and if  *)
(* the page gave timestamps and agenda texts, every vote of the meeting is *)
(* matched against the agenda texts.                                       *)
(***************************************************************************)
\* the words that are substrings of a lower-case chunk
SubstringsOf(c) ==
    CASE c = "item 5:" -> {"item 5:", "item", "5:", "5"}
      [] c = "no. 5" -> {"no. 5", "no.", "5"}
      [] OTHER -> {c}

\* str.split() of a lower-case text
SplitChunk(c) ==
    CASE c = "item 5:" -> <<"item", "5:">>
      [] c = "no. 5" -> <<"no.", "5">>
      [] c = "(for adoption only)" -> <<"(for", "adoption", "only)">>
      [] OTHER -> <<c>>

Split(text) == Flatten([i \in DOMAIN text |-> SplitChunk(text[i])])

agenda_keywords == {"consent", "resolution", "ordinance", "hearing", "adjournment"}

\* the elements with data-id and time
scrape_meeting_timestamps(elements) ==
    SelectSeq(elements, LAMBDA e : Has(e, "time"))

\* the elements with data-id whose text holds an agenda keyword
scrape_agenda_items(elements) ==
    SelectSeq(elements,
              LAMBDA e : \E keyword \in agenda_keywords :
                            Contains(Lower(e.text), keyword))

MatchScore(agenda_item, agenda_text) ==
    LET item == Lower(agenda_item)
        text == Lower(agenda_text)
    IN IF item = text THEN 100
       ELSE IF IsInfix(item, text) \/ IsInfix(text, item) THEN 80
       ELSE IF \E k \in DOMAIN Split(item) :
                  \E i \in DOMAIN text : Split(item)[k] \in SubstringsOf(text[i])
            THEN 60
       ELSE 0

\* the position in agenda_mappings of the best match, 0 for None: the first
\* of the candidates with the highest score above 0
BestAgendaMatch(agenda_item, agenda_mappings) ==
    LET best == {k \in DOMAIN agenda_mappings :
                    /\ MatchScore(agenda_item, agenda_mappings[k].text) > 0
                    /\ \A j \in DOMAIN agenda_mappings :
                          MatchScore(agenda_item, agenda_mappings[j].text)
                              <= MatchScore(agenda_item, agenda_mappings[k].text)}
    IN IF best = {} THEN 0 ELSE Min(best)

match_meta_ids_to_votes(timestamp_mappings, agenda_mappings, vote) ==
    LET agenda_item == Get(vote, "agenda_item", <<>>)
        frame_number == Get(vote, "frame_number", 0)
        best_match == BestAgendaMatch(agenda_item, agenda_mappings)
    IN IF best_match # 0
          /\ MatchScore(agenda_item, agenda_mappings[best_match].text) >= 60
       THEN LET meta_id == agenda_mappings[best_match].data_id
                timed == SelectSeq(timestamp_mappings,
                                   LAMBDA e : e.data_id = meta_id)
            IN Put(Put(Put(vote,
                   "meta_id", meta_id),
                   "video_timestamp",
                   IF timed # <<>> THEN timed[Len(timed)].time
                   ELSE frame_number * 30),
                   "timestamp_estimated", FALSE)
       ELSE vote

Meetings2024 ==
    {m \in DOMAIN store.meetings :
        Get(store.meetings[m], "date", "") \in {"2024-06-11"}}

update_2024_meetings_with_real_meta_ids ==
    \E pages \in PagesFor(Meetings2024) :
        /\ store' = Put(store, "votes",
              [i \in DOMAIN store.votes |->
                  LET vote == store.votes[i]
                      m == Get(vote, "meeting_id", "")
                  IN IF m \in Meetings2024
                        /\ scrape_meeting_timestamps(pages[m]) # <<>>
                        /\ scrape_agenda_items(pages[m]) # <<>>
                     THEN match_meta_ids_to_votes(
                              scrape_meeting_timestamps(pages[m]),
                              scrape_agenda_items(pages[m]), vote)
                     ELSE vote])
        /\ page' = pages
        /\ lastOp' = "update_2024_meetings_with_real_meta_ids"
        /\ UNCHANGED <<new_data, removed, self_stats,
                       candidates, config, io, backups>>

(***************************************************************************)
(* parse_raw_vote_data: the individual votes are read from the raw text of *)
(* the vote candidates and written into the store votes of the same        *)
(* meeting at the same frame, or at a frame at most 5 away.  A raw text is *)
(* the list of its lines and a line the list of its words.                 *)
(***************************************************************************)
\* re.match(r'councilmember\s+(\w+)\s+([a-z]+)', line.lower())
LineMatches(line) == Len(line) >= 3 /\ Lower(line)[1] = "councilmember"

ocr_votes == {"nl", "ly", "mal", "mill", "ai"}

\* the mapping of the tokens the code takes for OCR errors
OcrVote(vote) ==
    IF vote \in ocr_votes
    THEN IF vote \in {"ly", "y"} THEN "yea"
         ELSE IF vote \in {"nl", "n"} THEN "nay"
         ELSE IF vote \in {"a", "ai"} THEN "abstain"
         ELSE "abstain"
    ELSE vote

normalized_name(name) ==
    CASE name = "gerson" -> "MIKE GERSON"
      [] name = "kaji" -> "JON KAJI"
      [] name = "kalani" -> "SHARON KALANI"
      [] name = "lewis" -> "BRIDGET LEWIS"
      [] name = "mattucci" -> "AURELIO MATTUCCI"
      [] name = "sheikh" -> "ASAM SHEIKH"
      [] name = "chen" -> "GEORGE CHEN"
      [] OTHER -> Upper(name)

normalized_vote(vote) ==
    IF vote \in {"yea", "y", "yes"} THEN "YES"
    ELSE IF vote \in {"nay", "n", "no", "nl"} THEN "NO"
    ELSE IF vote \in {"abstain", "a"} THEN "ABSTAIN"
    ELSE Upper(vote)

\* a later line of the same member overwrites an earlier one
RECURSIVE parse_raw_vote_text(_)
parse_raw_vote_text(raw_text) ==
    IF raw_text = <<>> THEN EmptyDict
    ELSE LET line == raw_text[Len(raw_text)]
             before == parse_raw_vote_text(SubSeq(raw_text, 1, Len(raw_text) - 1))
         IN IF LineMatches(line)
            THEN Put(before, normalized_name(Lower(line)[2]),
                     normalized_vote(OcrVote(Lower(line)[3])))
            ELSE before

\* the candidates of the model
cMal ==
    [meeting_id |-> "14520", frame_number |-> 10,
     raw_text |-> << <<"Councilmember", "Lewis", "mal">>,
                     <<"councilmember", "mattucci", "yea">> >>]

cAbsent ==
    [meeting_id |-> "14520", frame_number |-> 14,
     raw_text |-> << <<"Motion", "Passes">>,
                     <<"councilmember", "lewis", "absent">>,
                     <<"councilmember", "chen", "aye">> >>]

cNl ==
    [meeting_id |-> "14262", frame_number |-> 30,
     raw_text |-> << <<"councilmember", "lewis", "nl">> >>]

cChen ==
    [meeting_id |-> "14520", frame_number |-> 11,
     raw_text |-> << <<"councilmember", "chen", "yes">> >>]

CandidateFiles == {<<cMal>>, <<cChen, cAbsent>>, <<cNl>>}

\* the candidates whose raw text names Mattucci or Lewis and gives votes
ParsedCandidates(votes_data) ==
    SelectSeq(votes_data,
              LAMBDA vote :
                  /\ Get(vote, "raw_text", <<>>) # <<>>
                  /\ \/ Contains(Lower(Flatten(vote.raw_text)), "mattucci")
                     \/ Contains(Lower(Flatten(vote.raw_text)), "lewis")
                  /\ parse_raw_vote_text(vote.raw_text) # EmptyDict)

\* raw_votes[meeting_id]: the position in parsed of the entry of every
\* frame, in the order the frames were first entered; a later candidate of
\* the same frame overwrites the entry
RawFrames(parsed, meeting_id) ==
    LET mine == SelectSeq([k \in DOMAIN parsed |-> k],
                          LAMBDA k : parsed[k].meeting_id = meeting_id)
        frames == [j \in DOMAIN mine |-> parsed[mine[j]].frame_number]
        firsts == FirstPositions(frames, 1)
    IN [g \in DOMAIN firsts |->
          mine[CHOOSE j \in DOMAIN mine :
                  /\ frames[j] = frames[firsts[g]]
                  /\ \A l \in DOMAIN mine : frames[l] = frames[j] => l <= j]]

\* the position in parsed of the entry a store vote is updated from, 0 for
\* none: the entry of its frame, else the first entry at most 5 frames away
RawMatch(parsed, vote) ==
    LET entries == RawFrames(parsed, vote.meeting_id)
        Frame(g) == parsed[entries[g]].frame_number
        exact == {g \in DOMAIN entries : Frame(g) = vote.frame_number}
        near == {g \in DOMAIN entries :
                    /\ Frame(g) - vote.frame_number <= 5
                    /\ vote.frame_number - Frame(g) <= 5}
    IN IF exact # {} THEN entries[Min(exact)]
       ELSE IF near # {} THEN entries[Min(near)]
       ELSE 0

councilmember_summaries(councilmember_stats) ==
    [cm \in DOMAIN councilmember_stats |->
        [role |-> "Councilmember", stats |-> councilmember_stats[cm]]]

extract_individual_votes_from_raw_data ==
    \E votes_data \in CandidateFiles :
        LET parsed == ParsedCandidates(votes_data)
            councilmember_names ==
                UNION {DOMAIN parse_raw_vote_text(parsed[k].raw_text) :
                          k \in DOMAIN parsed}
            votes == [i \in DOMAIN store.votes |->
                        IF RawMatch(parsed, store.votes[i]) # 0
                        THEN Put(store.votes[i], "individual_votes",
                                 parse_raw_vote_text(
                                     parsed[RawMatch(parsed, store.votes[i])].raw_text))
                        ELSE store.votes[i]]
            \* print(f"Updated vote {vote['id']} ...") raises KeyError
            raised == \E i \in DOMAIN store.votes :
                          /\ RawMatch(parsed, store.votes[i]) # 0
                          /\ ~Has(store.votes[i], "id")
            councilmember_stats == RosterStats(councilmember_names, votes)
        IN /\ candidates' = votes_data
           /\ IF raised
              THEN /\ lastOp' = "extract_individual_votes_from_raw_data failed"
                   /\ UNCHANGED store
              ELSE /\ store' = Put(Put(Put(Put(store,
                                  "votes", votes),
                                  "councilmembers", councilmember_names),
                                  "councilmember_stats", councilmember_stats),
                                  "councilmember_summaries",
                                  councilmember_summaries(councilmember_stats))
                   /\ lastOp' = "extract_individual_votes_from_raw_data"
           /\ UNCHANGED <<new_data, removed, page, self_stats, config, io, backups>>

(***************************************************************************)
(* Frame-based deduplication: aggressive_deduplication,                    *)
(* conservative_deduplication and fix_frame_duplicates.  Each walks the    *)
(* target meetings, groups the votes of a meeting by frame number, keeps   *)
(* the best-scored vote of a group of duplicates and removes from the      *)
(* store every vote whose id is the id of one of the others.               *)
(***************************************************************************)
target_meetings == <<"14262", "14319", "14350">>

\* len() of a chunk of the agenda texts of the target meetings
CharCount(c) ==
    CASE c = "Adjournment" -> 11
      [] c = "of" -> 2
      [] c = "the" -> 3
      [] c = "Council" -> 7
      [] c = "Meeting" -> 7
      [] c = "Meet..." -> 7

\* len() of a text: its chunks and one blank between two of them
RECURSIVE Length(_)
Length(text) ==
    IF text = <<>> THEN 0
    ELSE CharCount(Head(text)) + (IF Len(text) > 1 THEN 1 ELSE 0)
         + Length(Tail(text))

\* fix_frame_duplicates.get_vote_score
frame_vote_score(vote) ==
    LET individual_votes == Get(vote, "individual_votes", EmptyDict)
        vote_tally == Get(vote, "vote_tally", EmptyDict)
        total_tally == Get(vote_tally, "ayes", 0) + Get(vote_tally, "noes", 0)
                       + Get(vote_tally, "abstentions", 0)
    IN (IF Has(vote, "id") THEN 100 ELSE 0)
       + Cardinality(DOMAIN individual_votes) * 10
       + (IF total_tally > 0 THEN total_tally * 5 ELSE 0)
       + Length(Get(vote, "agenda_item", <<>>))
       + (IF Has(vote, "frame_path") THEN 20 ELSE 0)

\* aggressive_deduplication.get_vote_quality_score
get_vote_quality_score(vote) ==
    frame_vote_score(vote)
    - (IF Has(vote, "agenda_item")
          /\ (\/ \E i \in DOMAIN vote.agenda_item :
                     vote.agenda_item[i] \in ChunksWith("...")
              \/ Length(vote.agenda_item) < 20)
       THEN 50 ELSE 0)

\* conservative_deduplication.get_vote_quality_score
conservative_quality_score(vote) ==
    frame_vote_score(vote)
    - (IF Has(vote, "agenda_item") /\ Length(vote.agenda_item) < 10
       THEN 30 ELSE 0)

\* fix_frame_duplicates.normalize_agenda_item
normalize_frame_agenda(agenda_item) ==
    IF agenda_item = <<>> THEN <<>>
    ELSE LET n0 == Lower(agenda_item)
             n1 == StripPrefix(n0, ItemPrefixes)
             n2 == StripPrefix(n1, NoPrefixes)
             n3 == StripSuffix(n2, {"(for adoption only)"})
             n4 == StripSuffix(n3, {"(for presentation)"})
             n5 == StripSuffix(n4, {"expenditure: none", "expenditure: none."})
             n6 == StripSuffix(n5, {"expenditure: $5,000", "expenditure: $5,000."})
         IN n6

\* conservative_deduplication.are_votes_similar; no chunk of the agenda
\* texts of the target meetings is a part of another chunk, so that
\* "text1 in text2" is the containment of the chunks of text1 in a row
are_votes_similar(vote1, vote2) ==
    LET text1 == Get(vote1, "agenda_item", <<>>)
        text2 == Get(vote2, "agenda_item", <<>>)
        IsPrefix(p, text) ==
            Len(p) <= Len(text) /\ \A i \in DOMAIN p : text[i] = p[i]
    IN IF Get(vote1, "frame_number", -1) # Get(vote2, "frame_number", -1)
       THEN FALSE
       ELSE IF text1 = text2 THEN TRUE
       ELSE IF text1 # <<>> /\ text2 # <<>>
       THEN \/ IsInfix(text1, text2)
            \/ IsInfix(text2, text1)
            \/ Length(text1) <= 5 /\ IsPrefix(text1, text2)
            \/ Length(text2) <= 5 /\ IsPrefix(text2, text1)
       ELSE FALSE

\* the elements of a list that pass a filter; flags[i] tells whether
\* votes[i] passes
RECURSIVE Filter(_, _)
Filter(votes, flags) ==
    IF votes = <<>> THEN <<>>
    ELSE (IF Head(flags) THEN <<Head(votes)>> ELSE <<>>)
         \o Filter(Tail(votes), Tail(flags))

\* the votes of a meeting that carry a frame number
FrameVotes(votes, meeting_id) ==
    Filter(votes, [i \in DOMAIN votes |->
                      /\ Get(votes[i], "meeting_id", "") = meeting_id
                      /\ Has(votes[i], "frame_number")])

\* frame_groups.items(): the groups in the order their frame comes first
frame_groups(frame_votes) ==
    LET keys == [i \in DOMAIN frame_votes |-> frame_votes[i].frame_number]
        firsts == FirstPositions(keys, 1)
    IN [g \in DOMAIN firsts |-> GroupOf(frame_votes, keys, keys[firsts[g]])]

\* scored_votes.sort(key = score, reverse = True): stable
RECURSIVE SortDescending(_, _)
SortDescending(votes, scores) ==
    IF votes = <<>> THEN <<>>
    ELSE LET best == Min({i \in DOMAIN votes :
                             \A j \in DOMAIN votes : scores[j] <= scores[i]})
         IN <<votes[best]>>
            \o SortDescending(
                 [j \in 1..(Len(votes) - 1) |->
                     IF j < best THEN votes[j] ELSE votes[j + 1]],
                 [j \in 1..(Len(votes) - 1) |->
                     IF j < best THEN scores[j] ELSE scores[j + 1]])

\* the ids marked for removal in a group of duplicates: all but the first
\* of the sorted group
Losers(votes, scores) ==
    IF Len(votes) > 1
    THEN {SortDescending(votes, scores)[j].id : j \in 2..Len(votes)}
    ELSE {}

\* frame_votes.sort(key = frame): stable
RECURSIVE SortByFrame(_)
SortByFrame(votes) ==
    IF votes = <<>> THEN <<>>
    ELSE LET first == Min({i \in DOMAIN votes :
                              \A j \in DOMAIN votes :
                                  votes[i].frame_number <= votes[j].frame_number})
         IN <<votes[first]>>
            \o SortByFrame([j \in 1..(Len(votes) - 1) |->
                              IF j < first THEN votes[j] ELSE votes[j + 1]])

\* aggressive_deduplication, the pass over neighbours in frame order: of
\* two votes at most two frames apart, neither marked yet, the one with
\* the lower score is marked
RECURSIVE AdjacentPass(_, _, _)
AdjacentPass(frame_votes, i, to_remove) ==
    IF i >= Len(frame_votes) THEN to_remove
    ELSE LET vote1 == frame_votes[i]
             vote2 == frame_votes[i + 1]
         IN IF /\ vote2.frame_number - vote1.frame_number <= 2
               /\ vote1.id \notin to_remove
               /\ vote2.id \notin to_remove
            THEN AdjacentPass(frame_votes, i + 1,
                     to_remove \cup
                     {IF get_vote_quality_score(vote1) >= get_vote_quality_score(vote2)
                      THEN vote2.id ELSE vote1.id})
            ELSE AdjacentPass(frame_votes, i + 1, to_remove)

\* conservative_deduplication, the similar groups of a frame group: a vote
\* whose id is not in processed_votes opens a group and takes every later
\* vote that is similar to it and whose id is not in processed_votes
RECURSIVE SimilarTo(_, _, _, _)
SimilarTo(votes, i, j, processed) ==
    IF j > Len(votes) THEN [group |-> <<>>, processed |-> processed]
    ELSE IF votes[j].id \notin processed /\ are_votes_similar(votes[i], votes[j])
    THEN LET rest == SimilarTo(votes, i, j + 1, processed \cup {votes[j].id})
         IN [group |-> <<votes[j]>> \o rest.group, processed |-> rest.processed]
    ELSE SimilarTo(votes, i, j + 1, processed)

RECURSIVE similar_groups(_, _, _)
similar_groups(votes, i, processed) ==
    IF i > Len(votes) THEN <<>>
    ELSE IF votes[i].id \in processed THEN similar_groups(votes, i + 1, processed)
    ELSE LET s == SimilarTo(votes, i, i + 1, processed \cup {votes[i].id})
         IN (IF s.group # <<>> THEN <<(<<votes[i]>> \o s.group)>> ELSE <<>>)
            \o similar_groups(votes, i + 1, s.processed)

\* fix_frame_duplicates, the agenda groups of a frame group
agenda_groups(votes) ==
    LET keys == [i \in DOMAIN votes |->
                    normalize_frame_agenda(Get(votes[i], "agenda_item", <<>>))]
        firsts == FirstPositions(keys, 1)
    IN [g \in DOMAIN firsts |-> GroupOf(votes, keys, keys[firsts[g]])]

\* the groups of duplicates a script finds among the votes of a meeting
DuplicateGroups(script, frame_votes) ==
    LET frames == frame_groups(frame_votes)
        Several(groups) == Filter(groups, [g \in DOMAIN groups |-> Len(groups[g]) > 1])
    IN CASE script = "aggressive_deduplication" -> Several(frames)
         [] script = "conservative_deduplication" ->
                Flatten([g \in DOMAIN frames |-> similar_groups(frames[g], 1, {})])
         [] script = "fix_frame_duplicates" ->
                Flatten([g \in DOMAIN frames |-> Several(agenda_groups(frames[g]))])

\* the score a script gives a vote
ScoreOf(script, vote) ==
    CASE script = "aggressive_deduplication" -> get_vote_quality_score(vote)
      [] script = "conservative_deduplication" -> conservative_quality_score(vote)
      [] script = "fix_frame_duplicates" -> frame_vote_score(vote)

\* votes_to_remove of one meeting
votes_to_remove(script, frame_votes) ==
    LET groups == DuplicateGroups(script, frame_votes)
        marked == UNION {Losers(groups[g],
                                [i \in DOMAIN groups[g] |-> ScoreOf(script, groups[g][i])]) :
                            g \in DOMAIN groups}
    IN IF script = "aggressive_deduplication"
       THEN AdjacentPass(SortByFrame(frame_votes), 1, marked)
       ELSE marked

\* the loop over the target meetings: data['votes'] loses every vote whose
\* id is marked, a vote without id is kept (vote.get('id') is None)
RECURSIVE DedupTargets(_, _, _)
DedupTargets(script, votes, k) ==
    IF k > Len(target_meetings) THEN votes
    ELSE LET marked == votes_to_remove(script, FrameVotes(votes, target_meetings[k]))
         IN DedupTargets(script,
                Filter(votes, [i \in DOMAIN votes |->
                                  ~(Has(votes[i], "id") /\ votes[i].id \in marked)]),
                k + 1)

\* the meeting metadata of the target meetings is recounted
TargetMetadata(meetings, votes) ==
    [m \in DOMAIN meetings |->
        IF m \in Range(target_meetings)
        THEN MeetingMetadata(meetings, votes)[m] ELSE meetings[m]]

\* vote['id'] raises KeyError: every vote of a target meeting that has a
\* frame number is asked for its id
FrameDedupRaises(votes) ==
    \E i \in DOMAIN votes :
        /\ Get(votes[i], "meeting_id", "") \in Range(target_meetings)
        /\ Has(votes[i], "frame_number")
        /\ ~Has(votes[i], "id")

\* the run of a script that ended in the KeyError
FailedRun(script) ==
    CASE script = "aggressive_deduplication" -> "aggressive_deduplication failed"
      [] script = "conservative_deduplication" -> "conservative_deduplication failed"
      [] script = "fix_frame_duplicates" -> "fix_frame_duplicates failed"

frame_deduplication(script) ==
    /\ IF FrameDedupRaises(store.votes)
       THEN /\ lastOp' = FailedRun(script)
            /\ UNCHANGED store
       ELSE LET votes == DedupTargets(script, store.votes, 1)
            IN /\ store' = Put(Put(store, "votes", votes),
                               "meetings", TargetMetadata(store.meetings, votes))
               /\ lastOp' = script
    /\ UNCHANGED <<new_data, removed, page, self_stats, candidates, config, io,
                   backups>>

Run(script) ==
    /\ runs < MaxRuns
    /\ runs' = runs + 1
    /\ script

Next ==
    \/ Run(comprehensive_deduplication)
    \/ Run(run_import(InputFiles, {FALSE}, {0}))
    \/ Run(fix_vote_tally_data)
    \/ Run(generate_councilmember_data)
    \/ Run(remove_non_votable_votes)
    \/ Run(fix_individual_votes)
    \/ Run(fix_missing_lewis_mattucci)
    \/ Run(fix_duplicate_councilmembers)
    \/ Run(update_meeting_metadata)
    \/ Run(update_2024_meetings_with_real_meta_ids)

\* the scripts in any order, the imports being real runs whose requests
\* are answered at once
Spec == Init /\ [][Next]_vars

(***************************************************************************)
(* Import runs on their own: dry runs and real runs, with requests that    *)
(* fail, on every input file.                                              *)
(***************************************************************************)
MaxImports == 2

NextImport ==
    /\ runs < MaxImports
    /\ runs' = runs + 1
    /\ run_import(ImportFiles, BOOLEAN, 0..max_retries)

SpecImport == Init /\ [][NextImport]_vars

(***************************************************************************)
(* Import runs on inputs whose vote has no meta_id and gets none from the  *)
(* page, so that its timestamp is estimated from its agenda text.          *)
(***************************************************************************)
AgendaTexts ==
    {<<>>, <<"Consent", "Calendar">>, <<"Public", "Hearing">>, <<"Adjournment">>,
     <<"Resolution">>, <<"Ordinance">>, <<"Budget">>, <<"Public", "Works">>,
     <<"Consent", "Public", "Hearing">>, <<"Public", "Hearing", "Adjournment">>,
     <<"Adjournment", "Resolution">>, <<"Ordinance", "Resolution">>}

EstimateFiles ==
    {[votes |-> <<[meeting_id |-> "14520", agenda_item |-> agenda_item,
                   frame_number |-> frame_number,
                   individual_votes |-> ("GEORGE CHEN" :> "YES")]>>,
      meetings |-> ("14520" :> InputMeeting("14520"))] :
        agenda_item \in AgendaTexts, frame_number \in {0, 7}}

NextEstimate ==
    /\ runs < MaxImports
    /\ runs' = runs + 1
    /\ run_import(EstimateFiles, BOOLEAN, {0})

SpecEstimate == Init /\ [][NextEstimate]_vars

(***************************************************************************)
(* The repair scripts on their own, on the store files above and on store  *)
(* files where votes of target meeting 14262 share a frame.                *)
(***************************************************************************)
RepairVotes ==
    [a |-> [id |-> <<"d1">>, meeting_id |-> "14262",
            agenda_item |-> <<"Adjournment", "of", "the", "Council", "Meeting">>,
            frame_number |-> 30,
            individual_votes |-> ("GEORGE CHEN" :> "YES") @@ ("MIKE GERSON" :> "YES"),
            vote_tally |-> [ayes |-> 2, noes |-> 0, abstentions |-> 0],
            result |-> <<"Passes">>],
     \* a shorter reading of the same frame
     b |-> [id |-> <<"d2">>, meeting_id |-> "14262",
            agenda_item |-> <<"Adjournment">>, frame_number |-> 30,
            result |-> <<"Passes">>],
     \* a second reading of the frame under the id of the first
     c |-> [id |-> <<"d1">>, meeting_id |-> "14262",
            agenda_item |-> <<"Adjournment", "of", "the", "Council", "Meeting">>,
            frame_number |-> 30,
            result |-> <<"Passes">>],
     \* a vote of another meeting under the id of b
     d |-> [id |-> <<"d2">>, meeting_id |-> "14520",
            agenda_item |-> <<"Consent", "Calendar">>, frame_number |-> 10,
            individual_votes |-> ("GEORGE CHEN" :> "YES"),
            result |-> <<"Motion", "Passes">>],
     \* the next frame
     e |-> [id |-> <<"d3">>, meeting_id |-> "14262",
            agenda_item |-> <<"Adjournment", "of", "the", "Council", "Meeting">>,
            frame_number |-> 31,
            individual_votes |-> ("GEORGE CHEN" :> "YES") @@ ("MIKE GERSON" :> "YES")
                                 @@ ("ASAM SHAIKH" :> "YES"),
            vote_tally |-> [ayes |-> 3, noes |-> 0, abstentions |-> 0],
            result |-> <<"Passes">>,
            frame_path |-> "frame_0031.jpg"],
     \* a truncated reading
     f |-> [id |-> <<"d4">>, meeting_id |-> "14262",
            agenda_item |-> <<"Adjournment", "of", "the", "Council", "Meet...">>,
            frame_number |-> 30,
            result |-> <<"Passes">>]]

RepairFiles ==
    InitialFiles \cup
    {<<RepairVotes.a, RepairVotes.b>>, <<RepairVotes.a, RepairVotes.c>>,
     <<RepairVotes.b, RepairVotes.a, RepairVotes.d>>,
     <<RepairVotes.b, RepairVotes.a, RepairVotes.e>>,
     <<RepairVotes.f, RepairVotes.a>>, <<RepairVotes.a, oE>>,
     <<RepairVotes.c, RepairVotes.f, RepairVotes.b>>}

InitRepair ==
    /\ \E votes \in RepairFiles : store = InitialStore(votes)
    /\ runs = 0
    /\ new_data = [votes |-> <<>>, meetings |-> EmptyDict]
    /\ lastOp = "init"
    /\ removed = <<>>
    /\ page = <<>>
    /\ self_stats = NoStats
    /\ candidates = <<>>
    /\ config = [dry_run |-> FALSE]
    /\ io = <<>>
    /\ backups = <<>>

NextRepair ==
    \/ Run(extract_individual_votes_from_raw_data)
    \/ Run(frame_deduplication("aggressive_deduplication"))
    \/ Run(frame_deduplication("conservative_deduplication"))
    \/ Run(frame_deduplication("fix_frame_duplicates"))

SpecRepair == InitRepair /\ [][NextRepair]_vars

(***************************************************************************)
(* Shared vocabulary of the properties.                                    *)
(***************************************************************************)
ConsolidationRuns == {"comprehensive_deduplication", "run_import"}

KeysOf(votes) == {GroupKey(votes[i]) : i \in DOMAIN votes}

Tally(vote, bucket) == Get(Get(vote, "vote_tally", EmptyDict), bucket, 0)

Literal(vote, choice) ==
    Cardinality({cm \in DOMAIN IndividualVotes(vote) :
                    IndividualVotes(vote)[cm] = choice})

(***************************************************************************)
(* C1: after every consolidation run (a full deduplication or an import)   *)
(* no two records of the store share meeting_id and normalized agenda key, *)
(* and every key of the run's input (the prior store, and for an import    *)
(* the input file) is still the key of a record.                           *)
(***************************************************************************)
OneRecordPerKey(votes) ==
    \A i, j \in DOMAIN votes :
        i # j => GroupKey(votes[i]) # GroupKey(votes[j])

C1_OneRecordPerKey ==
    [][lastOp' \in ConsolidationRuns =>
          /\ OneRecordPerKey(store'.votes)
          /\ KeysOf(store.votes) \subseteq KeysOf(store'.votes)
          /\ lastOp' = "run_import" =>
                 KeysOf(new_data'.votes) \subseteq KeysOf(store'.votes)]_vars

(***************************************************************************)
(* C2: after a consolidation run the vote_tally of every record that       *)
(* carries one is the literal count of its individual_votes: ayes the YES  *)
(* entries, noes the NO entries, abstentions the ABSTAIN entries, recused  *)
(* the RECUSE entries.  A bucket the tally does not carry reads as 0, as   *)
(* every reader of the store reads it.                                     *)
(***************************************************************************)
TallyIsLiteral(vote) ==
    /\ Tally(vote, "ayes") = Literal(vote, "YES")
    /\ Tally(vote, "noes") = Literal(vote, "NO")
    /\ Tally(vote, "abstentions") = Literal(vote, "ABSTAIN")
    /\ Tally(vote, "recused") = Literal(vote, "RECUSE")

C2_TallyIsLiteral ==
    lastOp \in ConsolidationRuns =>
        \A i \in DOMAIN store.votes :
            Has(store.votes[i], "vote_tally") => TallyIsLiteral(store.votes[i])

(***************************************************************************)
(* C3: once a script has run, the result of every record that carries one  *)
(* follows from the record's own tally: it passes iff ayes > noes, fails   *)
(* iff noes > ayes and is a tie otherwise.                                 *)
(***************************************************************************)
ResultFollowsTally(vote) ==
    LET result == Lower(Get(vote, "result", <<>>))
        ayes == Tally(vote, "ayes")
        noes == Tally(vote, "noes")
    IN /\ Contains(result, "pass") <=> ayes > noes
       /\ Contains(result, "fail") <=> noes > ayes
       /\ Contains(result, "tie") <=> ayes = noes

C3_ResultFollowsTally ==
    lastOp # "init" =>
        \A i \in DOMAIN store.votes :
            Has(store.votes[i], "result") => ResultFollowsTally(store.votes[i])

(***************************************************************************)
(* C4: conservation of observations.  The provenance of a record is its    *)
(* consolidated_from list, or its own id when it has no such list.  In     *)
(* every consolidation run every id of the run's input (the provenance of  *)
(* the prior store, and for an import the ids of the input file) is in     *)
(* the provenance of a record of the new store or in the list of removed   *)
(* ids the run printed, and the provenance entries of the new store plus   *)
(* the removed ids are as many as the entries of the input.                *)
(***************************************************************************)
Provenance(vote) ==
    IF Has(vote, "consolidated_from") THEN vote.consolidated_from
    ELSE <<Get(vote, "id", FallbackId(vote))>>

ProvenanceIds(votes) == UNION {Range(Provenance(votes[i])) : i \in DOMAIN votes}

ProvenanceCount(votes) ==
    SumOver([i \in DOMAIN votes |-> Len(Provenance(votes[i]))], DOMAIN votes)

InputIds(votes) ==
    {Get(votes[i], "id", FallbackId(votes[i])) : i \in DOMAIN votes}

C4_Conservation ==
    [][/\ lastOp' = "comprehensive_deduplication" =>
            /\ ProvenanceIds(store.votes)
                   \subseteq ProvenanceIds(store'.votes) \cup Range(removed')
            /\ ProvenanceCount(store'.votes) + Len(removed')
                   = ProvenanceCount(store.votes)
       /\ lastOp' = "run_import" =>
            /\ ProvenanceIds(store.votes) \cup InputIds(new_data'.votes)
                   \subseteq ProvenanceIds(store'.votes)
            /\ ProvenanceCount(store'.votes)
                   = ProvenanceCount(store.votes) + Len(new_data'.votes)]_vars

(***************************************************************************)
(* C5: consolidation is idempotent: a deduplication that follows a         *)
(* deduplication, and an import that follows an import of the same input   *)
(* file, leave the vote records and the member statistics as they were.    *)
(***************************************************************************)
C5_Idempotent ==
    [][/\ lastOp' \in ConsolidationRuns
       /\ lastOp = lastOp'
       /\ new_data' = new_data
       => /\ store'.votes = store.votes
          /\ store'.councilmember_stats = store.councilmember_stats]_vars

(***************************************************************************)
(* C6: once a script has run, councilmember_stats is the replay of the     *)
(* individual_votes of the records in the store: for every member and      *)
(* bucket the stored count is the number of entries of that member with    *)
(* that choice, and total_votes the number of the member's entries.        *)
(***************************************************************************)
Replay(votes, cm, choice) ==
    Cardinality({i \in DOMAIN votes :
        /\ cm \in DOMAIN IndividualVotes(votes[i])
        /\ IndividualVotes(votes[i])[cm] = choice})

Entries(votes, cm) ==
    Cardinality({i \in DOMAIN votes : cm \in DOMAIN IndividualVotes(votes[i])})

StatsAreReplay(data) ==
    \A cm \in Voters(data.votes) \cup DOMAIN data.councilmember_stats :
        LET stats == Get(data.councilmember_stats, cm, ZeroStats)
        IN /\ stats.yes_votes = Replay(data.votes, cm, "YES")
           /\ stats.no_votes = Replay(data.votes, cm, "NO")
           /\ stats.abstentions = Replay(data.votes, cm, "ABSTAIN")
           /\ stats.total_votes = Entries(data.votes, cm)

C6_StatsAreReplay == lastOp # "init" => StatsAreReplay(store)

(***************************************************************************)
(* C7: in the statistics a script has just computed, total_votes of every  *)
(* member is yes_votes + no_votes + abstentions + recused, and the         *)
(* total_votes of all members add up to the number of individual_votes     *)
(* entries of all records.                                                 *)
(***************************************************************************)
StatsScripts ==
    {"run_import", "generate_councilmember_data", "remove_non_votable_votes",
     "fix_missing_lewis_mattucci"}

TotalIsSumOfBuckets(stats) ==
    stats.total_votes
        = stats.yes_votes + stats.no_votes + stats.abstentions
          + Get(stats, "recused", 0)

C7_StatConsistency ==
    lastOp \in StatsScripts =>
        /\ \A cm \in DOMAIN store.councilmember_stats :
               TotalIsSumOfBuckets(store.councilmember_stats[cm])
        /\ SumOver([cm \in DOMAIN store.councilmember_stats |->
                       store.councilmember_stats[cm].total_votes],
                   DOMAIN store.councilmember_stats)
             = SumOver([i \in DOMAIN store.votes |->
                           Cardinality(DOMAIN IndividualVotes(store.votes[i]))],
                       DOMAIN store.votes)

(***************************************************************************)
(* C8: after an import, the record merged from a group of two or more      *)
(* input observations carries, for every member, the choice of the         *)
(* highest-scored observation of the group that mentions the member.       *)
(***************************************************************************)
TopChoice(group, cm) ==
    LET mention == {i \in DOMAIN group : cm \in DOMAIN IndividualVotes(group[i])}
        top == CHOOSE i \in mention :
                   \A j \in mention :
                       get_vote_score(group[j]) <= get_vote_score(group[i])
    IN group[top].individual_votes[cm]

C8_HighestScoreWins ==
    lastOp = "run_import" =>
        LET firsts == FirstPositions(ImportKeys(new_data.votes), 1)
            old == Len(store.votes) - Len(firsts)
        IN \A g \in DOMAIN firsts :
               LET group == GroupOf(new_data.votes, ImportKeys(new_data.votes),
                                    ImportKey(new_data.votes[firsts[g]]))
               IN Len(group) > 1 =>
                      \A cm \in Voters(group) :
                          /\ cm \in DOMAIN store.votes[old + g].individual_votes
                          /\ store.votes[old + g].individual_votes[cm]
                                 = TopChoice(group, cm)

(***************************************************************************)
(* C9: individual_votes is never fabricated: every (member, choice) entry  *)
(* of every record in the store is an entry of a raw observation of the    *)
(* same meeting and agenda key; the two spellings of Asam Sheikh count as  *)
(* one member.                                                             *)
(***************************************************************************)
CanonicalName(cm) == IF cm = "ASAM SHAIKH" THEN "ASAM SHEIKH" ELSE cm

Observed(vote, cm) ==
    \E o \in Observations :
        /\ GroupKey(o) = GroupKey(vote)
        /\ \E c \in DOMAIN IndividualVotes(o) :
               /\ CanonicalName(c) = CanonicalName(cm)
               /\ IndividualVotes(o)[c] = IndividualVotes(vote)[cm]

C9_NeverFabricated ==
    \A i \in DOMAIN store.votes :
        \A cm \in DOMAIN IndividualVotes(store.votes[i]) :
            Observed(store.votes[i], cm)

(***************************************************************************)
(* C10: incremental import: when an input observation has the meeting_id   *)
(* and agenda item of a record already in the store, the store after the   *)
(* import holds a single record for that key, and the provenance of that   *)
(* record holds the provenance of the existing record and the id of the    *)
(* new observation.                                                        *)
(***************************************************************************)
C10_IncrementalRemerge ==
    [][lastOp' = "run_import" =>
          \A i \in DOMAIN store.votes, n \in DOMAIN new_data'.votes :
              ImportKey(store.votes[i]) = ImportKey(new_data'.votes[n]) =>
                  \E k \in DOMAIN store'.votes :
                      /\ \A j \in DOMAIN store'.votes :
                             ImportKey(store'.votes[j]) = ImportKey(store.votes[i])
                                 => j = k
                      /\ Range(Provenance(store.votes[i]))
                             \cup InputIds(<<new_data'.votes[n]>>)
                             \subseteq Range(Provenance(store'.votes[k]))]_vars

(***************************************************************************)
(* C11: the store file is overwritten only by an import that completes     *)
(* with a consistent result: an import that raises leaves the store file   *)
(* as it was, and the store an import writes has one record per key, the   *)
(* tally and the result of every record that carries them follow from the  *)
(* record, and the member statistics replay the votes.                     *)
(***************************************************************************)
Consistent(data) ==
    /\ OneRecordPerKey(data.votes)
    /\ \A i \in DOMAIN data.votes :
          /\ Has(data.votes[i], "vote_tally") => TallyIsLiteral(data.votes[i])
          /\ Has(data.votes[i], "result") => ResultFollowsTally(data.votes[i])
    /\ StatsAreReplay(data)

C11_OverwriteOnlyIfConsistent ==
    [][/\ lastOp' = "run_import failed" => store' = store
       /\ lastOp' = "run_import" => Consistent(store')]_vars

(***************************************************************************)
(* C12: a validation error is fatal for the observation, not for the run.  *)
(* When the input file of an import holds a vote without meeting_id, or    *)
(* with neither agenda_item nor frame_number, the import completes, the    *)
(* vote is named in the issues of the run report and is in the provenance  *)
(* of no record, and every key of the valid votes of the input file is the *)
(* key of a record of the store.                                           *)
(***************************************************************************)
ImportOutcomes == {"run_import", "run_import failed"}

ValidObservation(vote) ==
    /\ Has(vote, "meeting_id")
    /\ Has(vote, "agenda_item") \/ Has(vote, "frame_number")

C12_InvalidObservationSkipped ==
    [][/\ lastOp' \in ImportOutcomes
       /\ ~LoadRaises(new_data')
       /\ \E i \in DOMAIN new_data'.votes : ~ValidObservation(new_data'.votes[i])
       => /\ lastOp' = "run_import"
          /\ \A i \in DOMAIN new_data'.votes :
                IF ValidObservation(new_data'.votes[i])
                THEN GroupKey(new_data'.votes[i]) \in KeysOf(store'.votes)
                ELSE /\ \E k \in DOMAIN self_stats'.issues :
                           self_stats'.issues[k][1] = i - 1
                     /\ Get(new_data'.votes[i], "id", <<>>)
                           \notin ProvenanceIds(store'.votes)]_vars

(***************************************************************************)
(* C13: an unmatched anchor is never fatal.  When a vote of an import has  *)
(* no meta_id, belongs to a meeting of the input file and gets no match    *)
(* from the scrape, the import completes and the store holds the vote's    *)
(* record with the estimate of estimate_timestamp_from_agenda as           *)
(* video_timestamp and timestamp_estimated = TRUE.                         *)
(***************************************************************************)
NeedsEstimate(vote, data, pages) ==
    /\ vote.meeting_id \in DOMAIN data.meetings
    /\ ~Has(vote, "meta_id")
    /\ find_best_meta_match(vote, extract_meta_mappings(pages[vote.meeting_id])) = 0

C13_UnmatchedAnchorNotFatal ==
    [][/\ lastOp' \in ImportOutcomes
       /\ ~LoadRaises(new_data')
       /\ ~DedupRaises(new_data'.votes)
       => \A n \in DOMAIN deduplicate_votes(new_data'.votes) :
             LET vote == deduplicate_votes(new_data'.votes)[n]
             IN NeedsEstimate(vote, new_data', page') =>
                  /\ lastOp' = "run_import"
                  /\ \E k \in DOMAIN store'.votes :
                        /\ store'.votes[k].meeting_id = vote.meeting_id
                        /\ store'.votes[k].agenda_item = vote.agenda_item
                        /\ Get(store'.votes[k], "timestamp_estimated", FALSE)
                        /\ Get(store'.votes[k], "video_timestamp", 0 - 1)
                             = estimate_timestamp_from_agenda(vote.agenda_item,
                                                              vote.frame_number)]_vars

(***************************************************************************)
(* C14: timestamp_estimated is FALSE on a record only if the record's      *)
(* meta_id and video_timestamp are a pair a scrape has served (the pairs   *)
(* of the player pages, and the pairs the raw observations carry as        *)
(* scraped); a record with any other video_timestamp carries               *)
(* timestamp_estimated = TRUE.                                             *)
(***************************************************************************)
ScrapedPairs ==
    {<<o.meta_id, o.video_timestamp>> :
        o \in {x \in Observations :
                  Has(x, "video_timestamp") /\ ~Get(x, "timestamp_estimated", TRUE)}}
    \cup {<<e.data_id, e.time>> :
            e \in {x \in UNION {Range(p) : p \in PagesOf("14262") \cup PagesOf("14520")} :
                      Has(x, "time")}}

FlagIsTruthful(vote) ==
    /\ Has(vote, "video_timestamp") =>
          \/ <<Get(vote, "meta_id", ""), vote.video_timestamp>> \in ScrapedPairs
          \/ Get(vote, "timestamp_estimated", FALSE)
    /\ ~Get(vote, "timestamp_estimated", TRUE) =>
          /\ Has(vote, "video_timestamp")
          /\ <<Get(vote, "meta_id", ""), vote.video_timestamp>> \in ScrapedPairs

C14_EstimatedFlagKept ==
    \A i \in DOMAIN store.votes : FlagIsTruthful(store.votes[i])

(***************************************************************************)
(* C15: anchor matching accepts the best candidate that clears the         *)
(* threshold.  When a vote of an import has no meta_id, belongs to a       *)
(* meeting of the input file, and the page of the meeting holds a timed    *)
(* element whose text is the vote's agenda item (an exact match, the best  *)
(* score a candidate can have), the import completes and the vote's record *)
(* in the store carries the meta_id and time of such an element with       *)
(* timestamp_estimated = FALSE.                                            *)
(***************************************************************************)
ExactCandidates(vote, elements) ==
    {k \in DOMAIN elements :
        /\ Has(elements[k], "time")
        /\ Lower(elements[k].text) = Lower(vote.agenda_item)}

C15_BestCandidateAccepted ==
    [][/\ lastOp' \in ImportOutcomes
       /\ ~LoadRaises(new_data')
       /\ ~DedupRaises(new_data'.votes)
       => \A n \in DOMAIN deduplicate_votes(new_data'.votes) :
             LET vote == deduplicate_votes(new_data'.votes)[n]
                 m == vote.meeting_id
             IN /\ m \in DOMAIN new_data'.meetings
                /\ ~Has(vote, "meta_id")
                /\ ExactCandidates(vote, page'[m]) # {}
                => /\ lastOp' = "run_import"
                   /\ \E k \in DOMAIN store'.votes :
                         /\ store'.votes[k].meeting_id = m
                         /\ store'.votes[k].agenda_item = vote.agenda_item
                         /\ ~Get(store'.votes[k], "timestamp_estimated", TRUE)
                         /\ \E c \in ExactCandidates(vote, page'[m]) :
                               /\ Get(store'.votes[k], "meta_id", "")
                                    = page'[m][c].data_id
                               /\ Get(store'.votes[k], "video_timestamp", 0 - 1)
                                    = page'[m][c].time]_vars

(***************************************************************************)
(* C16: after every run that adds or removes vote records, every meeting   *)
(* of the store has total_votes = the number of records with its           *)
(* meeting_id, passed_votes = the number of those whose result passes and  *)
(* failed_votes = the number of those whose result fails.                  *)
(***************************************************************************)
RecordsOf(votes, m, word) ==
    Cardinality({i \in DOMAIN votes :
        /\ Get(votes[i], "meeting_id", "") = m
        /\ word # "" => Contains(Lower(Get(votes[i], "result", <<>>)), word)})

MeetingTotalsHold(data) ==
    \A m \in DOMAIN data.meetings :
        /\ Get(data.meetings[m], "total_votes", 0 - 1) = RecordsOf(data.votes, m, "")
        /\ Get(data.meetings[m], "passed_votes", 0 - 1) = RecordsOf(data.votes, m, "pass")
        /\ Get(data.meetings[m], "failed_votes", 0 - 1) = RecordsOf(data.votes, m, "fail")

C16_MeetingTotals ==
    [][Len(store'.votes) # Len(store.votes) => MeetingTotalsHold(store')]_vars

(***************************************************************************)
(* C17: source text is never trusted over derivation.  After a             *)
(* consolidation run, a record without individual votes has a tally of     *)
(* zeros, and the result it carries is a tie, neither passed nor failed,   *)
(* also when the record is the only observation of its group.              *)
(***************************************************************************)
DerivedWhenEmpty(vote) ==
    IndividualVotes(vote) = EmptyDict =>
        /\ \A bucket \in {"ayes", "noes", "abstentions", "recused"} :
              Tally(vote, bucket) = 0
        /\ Has(vote, "result") =>
              /\ Contains(Lower(vote.result), "tie")
              /\ ~Contains(Lower(vote.result), "pass")
              /\ ~Contains(Lower(vote.result), "fail")

C17_EmptyVotesGiveTie ==
    lastOp \in ConsolidationRuns =>
        \A i \in DOMAIN store.votes : DerivedWhenEmpty(store.votes[i])

(***************************************************************************)
(* C18: an import leaves untouched every record of the prior store that no *)
(* vote of the input file matches: the records of the prior store whose    *)
(* meeting_id and normalized agenda key no input vote shares are in the    *)
(* new store with all fields as they were and in the same relative order.  *)
(***************************************************************************)
RECURSIVE IsSubseq(_, _)
IsSubseq(s, t) ==
    IF s = <<>> THEN TRUE
    ELSE IF t = <<>> THEN FALSE
    ELSE IF Head(s) = Head(t) THEN IsSubseq(Tail(s), Tail(t))
    ELSE IsSubseq(s, Tail(t))

UnmatchedBy(vote, new_votes) ==
    \A n \in DOMAIN new_votes : GroupKey(new_votes[n]) # GroupKey(vote)

UnmatchedRecords(votes, new_votes) ==
    SelectSeq(votes, LAMBDA v : UnmatchedBy(v, new_votes))

C18_UnmatchedUntouched ==
    [][lastOp' = "run_import" =>
          IsSubseq(UnmatchedRecords(store.votes, new_data'.votes), store'.votes)]_vars

\* an import has run on a store that held a record no input vote matches
C18_Witness ==
    /\ lastOp = "run_import"
    /\ \E i \in DOMAIN store.votes :
          /\ i <= Len(store.votes) - Len(deduplicate_votes(new_data.votes))
          /\ UnmatchedBy(store.votes[i], new_data.votes)

(***************************************************************************)
(* C19: a tie in score is resolved by the lowest frame_number and then by  *)
(* the smallest id, whatever the order of the observations.  In a          *)
(* deduplication the record kept for a group of two or more votes is the   *)
(* winner of the group: of the votes with the highest score the one with   *)
(* the lowest frame_number, and of those the one with the smallest id.  In *)
(* an import the record merged from a group of two or more votes has the   *)
(* frame_number of the winner of the group.                                *)
(***************************************************************************)
IdsInOrder == <<"v1", "v2", "v3", "v4", "v5", "v6", "v7">>

\* the place of an id in the lexicographic order; a vote without id is last
IdRank(vote) ==
    IF Has(vote, "id") /\ \E k \in DOMAIN IdsInOrder : vote.id = <<IdsInOrder[k]>>
    THEN CHOOSE k \in DOMAIN IdsInOrder : vote.id = <<IdsInOrder[k]>>
    ELSE Len(IdsInOrder) + 1

Winners(group) ==
    LET top == {i \in DOMAIN group :
                   \A j \in DOMAIN group :
                       get_vote_score(group[j]) <= get_vote_score(group[i])}
        low == {i \in top :
                   \A j \in top : Get(group[i], "frame_number", 0)
                                     <= Get(group[j], "frame_number", 0)}
    IN {group[i] : i \in {k \in low : \A j \in low : IdRank(group[k]) <= IdRank(group[j])}}

C19_TieBreak ==
    [][/\ lastOp' = "comprehensive_deduplication" =>
            \A i \in DOMAIN store.votes :
                LET group == GroupOf(store.votes, GroupKeys(store.votes),
                                     GroupKey(store.votes[i]))
                IN Len(group) > 1 =>
                      \E k \in DOMAIN store'.votes : store'.votes[k] \in Winners(group)
       /\ lastOp' = "run_import" =>
            LET firsts == FirstPositions(ImportKeys(new_data'.votes), 1)
            IN \A g \in DOMAIN firsts :
                  LET group == GroupOf(new_data'.votes, ImportKeys(new_data'.votes),
                                       ImportKey(new_data'.votes[firsts[g]]))
                  IN Len(group) > 1 =>
                        \E w \in Winners(group) :
                            store'.votes[Len(store.votes) + g].frame_number
                                = Get(w, "frame_number", 0)]_vars

(***************************************************************************)
(* C20: the grouper never over-merges a recurring title.  Two votes of the *)
(* same meeting with the same normalized agenda key whose frame numbers    *)
(* are more than five frames apart and whose agenda items differ as        *)
(* written are both records of the store after a deduplication.            *)
(***************************************************************************)
FramesApart(v, w) ==
    \/ Get(v, "frame_number", 0) - Get(w, "frame_number", 0) > 5
    \/ Get(w, "frame_number", 0) - Get(v, "frame_number", 0) > 5

C20_NoOverMerge ==
    [][lastOp' = "comprehensive_deduplication" =>
          \A i, j \in DOMAIN store.votes :
              /\ GroupKey(store.votes[i]) = GroupKey(store.votes[j])
              /\ FramesApart(store.votes[i], store.votes[j])
              /\ Get(store.votes[i], "agenda_item", <<>>)
                    # Get(store.votes[j], "agenda_item", <<>>)
              => \E k, l \in DOMAIN store'.votes :
                    /\ k # l
                    /\ store'.votes[k] = store.votes[i]
                    /\ store'.votes[l] = store.votes[j]]_vars

(***************************************************************************)
(* C21  Choice normalization never guesses.  After an extraction of        *)
(* individual votes from raw text, every choice stored in a vote is one of *)
(* YES, NO, ABSTAIN and RECUSE, and a line of the candidates whose vote    *)
(* token is none of the recognized variants gives no YES, NO or ABSTAIN.   *)
(***************************************************************************)
RecognizedTokens ==
    {"y", "yea", "aye", "yes", "n", "nay", "no", "a", "abstain", "abstention",
     "r", "recuse"}

ChoiceEnum == {"YES", "NO", "ABSTAIN", "RECUSE"}

StoredChoices(votes) ==
    UNION {Range(IndividualVotes(votes[i])) : i \in DOMAIN votes}

GuessedLines(votes_data) ==
    {line \in UNION {Range(votes_data[k].raw_text) : k \in DOMAIN votes_data} :
        /\ LineMatches(line)
        /\ Lower(line)[3] \notin RecognizedTokens
        /\ Range(parse_raw_vote_text(<<line>>)) \cap {"YES", "NO", "ABSTAIN"} # {}}

C21_ChoiceNeverGuessed ==
    [][lastOp' = "extract_individual_votes_from_raw_data"
       => /\ StoredChoices(store'.votes) \subseteq ChoiceEnum
          /\ GuessedLines(candidates') = {}]_vars

(***************************************************************************)
(* C22  deduplicate_votes returns one VoteData per distinct pair of        *)
(* meeting_id and agenda_item.  After an import that got as far as the     *)
(* deduplication, the output has as many records as the input has distinct *)
(* pairs, every input vote is consolidated into exactly one record, which  *)
(* carries the vote's meeting_id and agenda_item, and no two records carry *)
(* the same pair.                                                          *)
(***************************************************************************)
PairOf(vote) == <<vote.meeting_id, vote.agenda_item>>

PairsOf(votes) == {PairOf(votes[i]) : i \in DOMAIN votes}

OneVoteDataPerPair(votes) ==
    LET out == deduplicate_votes(votes)
    IN /\ Len(out) = Cardinality(PairsOf(votes))
       /\ \A g, h \in DOMAIN out : PairOf(out[g]) = PairOf(out[h]) => g = h
       /\ \A i \in DOMAIN votes :
             \E g \in DOMAIN out :
                 /\ PairOf(out[g]) = PairOf(votes[i])
                 /\ Get(votes[i], "id", FallbackId(votes[i]))
                        \in Range(out[g].consolidated_from)

C22_OneVoteDataPerPair ==
    [][/\ lastOp' \in ImportOutcomes
       /\ ~LoadRaises(new_data')
       /\ ~DedupRaises(new_data'.votes)
       => OneVoteDataPerPair(new_data'.votes)]_vars

(***************************************************************************)
(* C23  A dry run never changes persistent state.  An import run with      *)
(* dry_run set, whether it completes or raises, leaves the store file and  *)
(* the backup files as they were and writes no file.                       *)
(***************************************************************************)
DryRunOutcomes == {"run_import dry run", "run_import failed"}

Writes(ops) == SelectSeq(ops, LAMBDA o : o.op = "write")

C23_DryRunWritesNothing ==
    [][config'.dry_run /\ lastOp' \in DryRunOutcomes /\ runs' # runs
       => /\ store' = store
          /\ backups' = backups
          /\ Writes(io') = <<>>]_vars

\* a dry run that completed on an existing store, after a real run that
\* left a backup, with an input that a real run would have merged
C23_Witness ==
    /\ lastOp = "run_import dry run"
    /\ config.dry_run
    /\ Exists(store)
    /\ backups # <<>>
    /\ new_data.votes # <<>>

(***************************************************************************)
(* C24  validate_data_integrity returns no issue exactly for data that has *)
(* 'votes' and 'meetings', whose votes have every configured required vote *)
(* field and whose meetings have every configured required meeting field,  *)
(* and otherwise one issue per missing field.  Stated for the input of     *)
(* every import run.                                                       *)
(***************************************************************************)
MissingOf(d, fields) == {k \in DOMAIN fields : ~Has(d, fields[k])}

MissingCount(data) ==
    Cardinality(MissingOf(data, <<"votes", "meetings">>))
    + (IF Has(data, "votes")
       THEN SumOver([i \in DOMAIN data.votes |->
                        Cardinality(MissingOf(data.votes[i], REQUIRED_VOTE_FIELDS))],
                    DOMAIN data.votes)
       ELSE 0)
    + (IF Has(data, "meetings")
       THEN SumOver([m \in DOMAIN data.meetings |->
                        Cardinality(MissingOf(data.meetings[m],
                                              REQUIRED_MEETING_FIELDS))],
                    DOMAIN data.meetings)
       ELSE 0)

C24_IssuePerMissingField ==
    [][runs' # runs
       => Len(validate_data_integrity(new_data')) = MissingCount(new_data')]_vars

(***************************************************************************)
(* C25  The fallback estimate is frame_number * 30 plus one offset, that   *)
(* of the first category in the order consent, public hearing,             *)
(* adjournment, resolution, ordinance that the agenda text names, 900 if   *)
(* it names none, and no offset for an empty agenda text; so a consent     *)
(* item is estimated earlier and a public hearing or an adjournment later  *)
(* than an item of no category at the same frame.  Stated for every vote   *)
(* of an import run that needs an estimate.                                *)
(***************************************************************************)
CategoryTable ==
    <<[phrase |-> <<"consent">>, offset |-> 300],
      [phrase |-> <<"public", "hearing">>, offset |-> 1800],
      [phrase |-> <<"adjournment">>, offset |-> 3600],
      [phrase |-> <<"resolution">>, offset |-> 1200],
      [phrase |-> <<"ordinance">>, offset |-> 1500]>>

CategoriesOf(agenda_item) ==
    {k \in DOMAIN CategoryTable : IsInfix(CategoryTable[k].phrase, Lower(agenda_item))}

CategoryOffset(agenda_item) ==
    IF agenda_item = <<>> THEN 0
    ELSE IF CategoriesOf(agenda_item) = {} THEN 900
    ELSE CategoryTable[Min(CategoriesOf(agenda_item))].offset

EstimateFollowsTable(vote) ==
    LET estimate == estimate_timestamp_from_agenda(vote.agenda_item, vote.frame_number)
        default == estimate_timestamp_from_agenda(<<"Budget">>, vote.frame_number)
        first == IF CategoriesOf(vote.agenda_item) = {} THEN 0
                 ELSE Min(CategoriesOf(vote.agenda_item))
    IN /\ estimate = vote.frame_number * 30 + CategoryOffset(vote.agenda_item)
       /\ first = 1 => estimate < default
       /\ first \in {2, 3} => estimate > default

C25_EstimateFollowsTable ==
    [][/\ runs' # runs
       /\ ~LoadRaises(new_data')
       /\ ~DedupRaises(new_data'.votes)
       => \A n \in DOMAIN deduplicate_votes(new_data'.votes) :
             LET vote == deduplicate_votes(new_data'.votes)[n]
             IN NeedsEstimate(vote, new_data', page') => EstimateFollowsTable(vote)]_vars

\* a run that estimated the timestamp of a vote whose agenda text names two
\* categories
C25_Witness ==
    /\ lastOp = "run_import failed"
    /\ self_stats.errors = <<"'timestamps_estimated'">>
    /\ Len(new_data.votes) = 1
    /\ new_data.votes[1].frame_number = 7
    /\ Cardinality(CategoriesOf(new_data.votes[1].agenda_item)) = 2
    /\ NeedsEstimate(deduplicate_votes(new_data.votes)[1], new_data, page)

(***************************************************************************)
(* C26  Consolidation does not depend on the order of its input.  The      *)
(* records an import makes of its input file, taken as a set of keys with  *)
(* their merged individual votes and primary fields, are the same for      *)
(* every order of the file's votes, and the votes a deduplication of the   *)
(* store keeps are the same set for every order of the store's votes.      *)
(***************************************************************************)
Reorderings(votes) ==
    {[i \in DOMAIN votes |-> votes[p[i]]] : p \in Permutations(DOMAIN votes)}

PrimaryFields(vote) ==
    [key |-> PairOf(vote),
     individual_votes |-> vote.individual_votes,
     frame_number |-> vote.frame_number,
     meta_id |-> Get(vote, "meta_id", ""),
     video_timestamp |-> Get(vote, "video_timestamp", 0 - 1)]

ImportedRecords(votes) ==
    {PrimaryFields(deduplicate_votes(votes)[g]) : g \in DOMAIN deduplicate_votes(votes)}

C26_OrderIndependent ==
    [][/\ lastOp' = "run_import"
          => \A votes \in Reorderings(new_data'.votes) :
                ImportedRecords(votes) = ImportedRecords(new_data'.votes)
       /\ lastOp' = "comprehensive_deduplication"
          => \A votes \in Reorderings(store.votes) :
                Range(DedupKept(votes)) = Range(store'.votes)]_vars
(***************************************************************************)
(* Frame-based deduplication.                                              *)
(***************************************************************************)
FrameScripts ==
    {"aggressive_deduplication", "conservative_deduplication", "fix_frame_duplicates"}

\* the groups of duplicates among the votes of a meeting that carry a
\* frame number, as sets of positions: the groups the script finds when
\* every vote has an id of its own
IntendedGroups(script, frame_votes) ==
    LET numbered == [i \in DOMAIN frame_votes |-> Put(frame_votes[i], "id", i)]
        groups == DuplicateGroups(script, numbered)
    IN {{groups[g][k].id : k \in DOMAIN groups[g]} : g \in DOMAIN groups}

\* one vote of the group is in the votes, and no vote of the group has a
\* higher score
OneRepresentative(script, group, votes) ==
    /\ CountVotes([i \in DOMAIN votes |-> votes[i] \in group]) = 1
    /\ \A i \in DOMAIN votes :
           votes[i] \in group =>
               \A v \in group : ScoreOf(script, v) <= ScoreOf(script, votes[i])

\* C27: after a run of a frame-based deduplication script, every group of
\* two or more votes of a target meeting that share a frame number (and, for
\* conservative_deduplication and fix_frame_duplicates, an agenda that is
\* similar or equal) has exactly one vote left in the votes of the store,
\* one with the highest score of the group, whatever ids the votes carry
C27_OneRepresentativePerGroup ==
    [][\A script \in FrameScripts :
          lastOp' \in {script, FailedRun(script)} =>
              \A m \in Range(target_meetings) :
                  LET frame_votes == FrameVotes(store.votes, m)
                  IN \A P \in IntendedGroups(script, frame_votes) :
                         OneRepresentative(script, {frame_votes[p] : p \in P},
                                           store'.votes)]_vars

\* the votes of the meetings that are no target
OtherVotes(votes) ==
    Filter(votes, [i \in DOMAIN votes |->
                      Get(votes[i], "meeting_id", "") \notin Range(target_meetings)])

\* C28: a run of aggressive_deduplication or conservative_deduplication
\* leaves every vote of a meeting that is no target in the store, unchanged,
\* and leaves the metadata of every meeting that is no target unchanged
C28_OnlyTargetsChange ==
    [][\A script \in {"aggressive_deduplication", "conservative_deduplication"} :
          lastOp' \in {script, FailedRun(script)} =>
              /\ OtherVotes(store'.votes) = OtherVotes(store.votes)
              /\ \A m \in DOMAIN store.meetings \ Range(target_meetings) :
                     /\ m \in DOMAIN store'.meetings
                     /\ store'.meetings[m] = store.meetings[m]]_vars

(***************************************************************************)
(* Requests and retries of an import run.                                  *)
(***************************************************************************)
AllOutcomes == {"run_import", "run_import dry run", "run_import failed"}

\* the positions of the requests for a meeting among the operations
GetsOf(ops, m) ==
    {p \in DOMAIN ops : ops[p].op = "get" /\ ops[p].meeting_id = m}

RequestedMeetings(ops) ==
    {ops[p].meeting_id : p \in {q \in DOMAIN ops : ops[q].op = "get"}}

\* the requests for a meeting are the attempts 0, 1, ... in this order, at
\* most max_retries of them; none follows a request that succeeded; a
\* request that failed is followed by a sleep of retry_delay * 2^attempt and
\* the next attempt, the last attempt by no sleep
BoundedRetries(ops, m) ==
    LET gets == GetsOf(ops, m)
    IN /\ Cardinality(gets) <= max_retries
       /\ {ops[p].attempt : p \in gets} = 0..(Cardinality(gets) - 1)
       /\ \A p, q \in gets : p < q => ops[p].attempt < ops[q].attempt /\ ~ops[p].ok
       /\ \A p \in gets :
              IF ops[p].ok THEN TRUE
              ELSE IF ops[p].attempt < max_retries - 1
              THEN /\ p + 2 <= Len(ops)
                   /\ ops[p + 1] = [op |-> "sleep",
                                    seconds |-> retry_delay * (2 ^ ops[p].attempt)]
                   /\ p + 2 \in gets
                   /\ ops[p + 2].attempt = ops[p].attempt + 1
              ELSE p = Len(ops) \/ ops[p + 1].op # "sleep"
       /\ \A p \in DOMAIN ops :
              ops[p].op = "sleep" => p > 1 /\ ops[p - 1].op = "get" /\ ~ops[p - 1].ok

\* the number of mappings the scrape of a meeting returned: those of the
\* page of the request that succeeded, none if no request did
MappingsReturned(ops, pages, m) ==
    IF \E p \in GetsOf(ops, m) : ops[p].ok
    THEN Len(extract_meta_mappings(pages[m])) ELSE 0

\* C29: an import run makes at most max_retries requests for a meeting and
\* none after the first that succeeds, sleeps retry_delay * 2^attempt after
\* a failed attempt that is not the last and not after the last, and gets
\* the mappings of the answered page, none once every attempt failed
C29_ScrapeIsBounded ==
    [][lastOp' \in AllOutcomes /\ runs' # runs =>
          /\ \A m \in RequestedMeetings(io') : BoundedRetries(io', m)
          /\ self_stats'.meta_ids_mapped =
                 SumOver([m \in RequestedMeetings(io') |->
                             MappingsReturned(io', page', m)],
                         RequestedMeetings(io'))]_vars

\* a run whose requests all failed: max_retries requests, sleeps of 1 and 2
\* seconds between them, no mapping
C29_Witness ==
    /\ lastOp \in AllOutcomes
    /\ \E p \in DOMAIN io :
           /\ io[p].op = "get" /\ ~io[p].ok /\ io[p].attempt = max_retries - 1
           /\ p > 1 /\ io[p - 1] = [op |-> "sleep", seconds |-> 2]
    /\ self_stats.meta_ids_mapped = 0

(***************************************************************************)
(* Backups.                                                                *)
(***************************************************************************)
\* C30: a real run that saves over an existing store file first writes a
\* backup that holds the content of the store file and then writes the
\* store file, and after the save the content the store file had before it
\* is the content of the newest backup
C30_BackupPrecedesOverwrite ==
    [][lastOp' = "run_import" /\ runs' # runs /\ Exists(store) =>
          /\ Writes(io') = <<[op |-> "write", file |-> "backup", content |-> store],
                             [op |-> "write", file |-> "store", content |-> store']>>
          /\ backups' # <<>>
          /\ backups'[Len(backups')] = store]_vars

\* a second save over the store file: the newest backup holds the store
\* file of before the save, which is not the store file of now
C30_Witness ==
    /\ lastOp = "run_import"
    /\ runs = MaxImports
    /\ Len(Writes(io)) = 2
    /\ backups # <<>>
    /\ Writes(io)[1].content = backups[Len(backups)]
    /\ backups[Len(backups)] # store

====
